---------------------------- MODULE Spec2Model ----------------------------
(***************************************************************************)
(* Verification model of the 5etools reorganisation and validation         *)
(* scripts (src/scripts/reorganize, src/scripts/validation).               *)
(*                                                                         *)
(* Python values are modelled as follows.                                  *)
(*   - a JSON object (dict read from a file) is a TLA+ record; a key that  *)
(*     is absent from the dict is absent from the record's DOMAIN, so      *)
(*     `"page" in entity` is `"page" \in DOMAIN entity` and                *)
(*     `entity.get("page") is None` is `"page" \notin DOMAIN entity`;       *)
(*   - a dict built by the code (insertion ordered) is a record            *)
(*     [keys |-> sequence of keys in insertion order, at |-> function];    *)
(*   - a list is a sequence.                                               *)
(***************************************************************************)
EXTENDS Integers, Sequences, FiniteSets, TLC

\* ------------------------------------------------------------------------
\* Bounds of the model
\* ------------------------------------------------------------------------

\* longest list of entities handed to group_entities_by_source /
\* deduplicate_entities
MaxEntities == 3

\* ------------------------------------------------------------------------
\* Generic helpers: Python dict (insertion ordered) and list operations
\* ------------------------------------------------------------------------

Range(s) == { s[i] : i \in 1..Len(s) }

SeqsUpTo(S, n) == UNION { [1..k -> S] : k \in 0..n }

\* {}
DictEmpty == [keys |-> <<>>, at |-> <<>>]

\* k in d
DictHas(d, k) == k \in Range(d.keys)

\* d[k] = v  (a new key goes last, an existing key keeps its position)
DictSet(d, k, v) ==
    IF DictHas(d, k)
    THEN [keys |-> d.keys, at |-> [x \in Range(d.keys) |-> IF x = k THEN v ELSE d.at[x]]]
    ELSE [keys |-> Append(d.keys, k),
          at   |-> [x \in Range(d.keys) \cup {k} |-> IF x = k THEN v ELSE d.at[x]]]

\* list(d.values())
DictValues(d) == [i \in 1..Len(d.keys) |-> d.at[d.keys[i]]]

\* ------------------------------------------------------------------------
\* Entities (records of the corpus)
\* ------------------------------------------------------------------------

EntityNames == {"Fireball"}
EntitySources == {"", "PHB", "XGE"}
EntityPages == {5, 12}

\* every combination of present / absent name, source and page
Entities ==
    LET withName == { [name |-> n] : n \in EntityNames } \cup { <<>> }
        addSource(e) == { e @@ [source |-> s] : s \in EntitySources } \cup { e }
        addPage(e) == { e @@ [page |-> p] : p \in EntityPages } \cup { e }
    IN UNION { addPage(e2) : e2 \in UNION { addSource(e1) : e1 \in withName } }

\* `not x` for a string x read from JSON
Falsy(x) == x = ""

\* utils.get_entity_source: entity["source"], None when the key is absent.
\* None is represented by the falsy "" (every use tests `not source`).
get_entity_source(entity) ==
    IF "source" \notin DOMAIN entity THEN "" ELSE entity.source

\* entity.get("name", "Unknown")
NameOrUnknown(entity) ==
    IF "name" \in DOMAIN entity THEN entity.name ELSE "Unknown"

\* GroupStep with the group chosen by a stale key: once a group exists every
\* record goes to the first group.
GroupStepStaleKey(st, entity, entity_type) ==
    LET source == get_entity_source(entity) IN
    IF Falsy(source)
    THEN [st EXCEPT !.missing_source =
              Append(@, <<entity_type, NameOrUnknown(entity)>>)]
    ELSE LET key == IF st.grouped.keys = <<>> THEN source ELSE st.grouped.keys[1]
             g0 == IF ~DictHas(st.grouped, key)
                   THEN DictSet(st.grouped, key, <<>>)
                   ELSE st.grouped
         IN [st EXCEPT !.grouped = DictSet(g0, key, Append(g0.at[key], entity))]

\* GroupStep without the `continue` of the quarantine branch: a record
\* without a source is listed and then stored under the key "".
GroupStepNoContinue(st, entity, entity_type) ==
    LET source == get_entity_source(entity)
        listed == IF Falsy(source)
                  THEN [st EXCEPT !.missing_source =
                            Append(@, <<entity_type, NameOrUnknown(entity)>>)]
                  ELSE st
        g0 == IF ~DictHas(listed.grouped, source)
              THEN DictSet(listed.grouped, source, <<>>)
              ELSE listed.grouped
    IN [listed EXCEPT !.grouped = DictSet(g0, source, Append(g0.at[source], entity))]

\* GroupStep assigning instead of appending: grouped[source] = [entity]
GroupStepAssign(st, entity, entity_type) ==
    LET source == get_entity_source(entity) IN
    IF Falsy(source)
    THEN [st EXCEPT !.missing_source =
              Append(@, <<entity_type, NameOrUnknown(entity)>>)]
    ELSE [st EXCEPT !.grouped = DictSet(st.grouped, source, <<entity>>)]

\* One iteration of the loop of group_entities_by_source over `entity`;
\* st = [grouped, missing_source].
GroupStep(st, entity, entity_type) ==
    LET source == get_entity_source(entity) IN
    IF Falsy(source)
    THEN [st EXCEPT !.missing_source =
              Append(@, <<entity_type, NameOrUnknown(entity)>>)]
    ELSE LET g0 == IF ~DictHas(st.grouped, source)
                   THEN DictSet(st.grouped, source, <<>>)
                   ELSE st.grouped
         IN [st EXCEPT !.grouped = DictSet(g0, source, Append(g0.at[source], entity))]

RECURSIVE GroupLoop(_, _, _, _)
GroupLoop(st, entities, i, entity_type) ==
    IF i > Len(entities) THEN st
    ELSE GroupLoop(GroupStep(st, entities[i], entity_type), entities, i + 1, entity_type)

\* utils.group_entities_by_source: the dict returned (grouped) together with
\* the local list missing_source the function logs from.
group_entities_by_source(entities, entity_type) ==
    GroupLoop([grouped |-> DictEmpty, missing_source |-> <<>>], entities, 1, entity_type)

\* DedupStep that never replaces the record first seen for a key
DedupStepKeepFirst(seen, entity) ==
    IF \/ "name" \notin DOMAIN entity \/ Falsy(entity.name)
       \/ "source" \notin DOMAIN entity \/ Falsy(entity.source)
    THEN seen
    ELSE LET key == <<entity.name, entity.source>> IN
         IF ~DictHas(seen, key) THEN DictSet(seen, key, entity) ELSE seen

\* DedupStep keyed by the source alone: records of one source replace one
\* another whatever their names, and a record needs no name
DedupStepBySource(seen, entity) ==
    IF "source" \notin DOMAIN entity \/ Falsy(entity.source)
    THEN seen
    ELSE LET key == entity.source IN
         IF ~DictHas(seen, key)
         THEN DictSet(seen, key, entity)
         ELSE LET existing == seen.at[key] IN
              IF /\ "page" \in DOMAIN entity
                 /\ ("page" \notin DOMAIN existing \/ entity.page > 0)
              THEN DictSet(seen, key, entity)
              ELSE seen

\* One iteration of the loop of deduplicate_entities; seen is the dict
\* keyed by (name, source).
DedupStep(seen, entity) ==
    IF \/ "name" \notin DOMAIN entity \/ Falsy(entity.name)
       \/ "source" \notin DOMAIN entity \/ Falsy(entity.source)
    THEN seen
    ELSE LET key == <<entity.name, entity.source>> IN
         IF ~DictHas(seen, key)
         THEN DictSet(seen, key, entity)
         ELSE LET existing == seen.at[key] IN
              \* page is not None and (existing_page is None or page > 0)
              IF /\ "page" \in DOMAIN entity
                 /\ ("page" \notin DOMAIN existing \/ entity.page > 0)
              THEN DictSet(seen, key, entity)
              ELSE seen

RECURSIVE DedupLoop(_, _, _)
DedupLoop(seen, entities, i) ==
    IF i > Len(entities) THEN seen
    ELSE DedupLoop(DedupStep(seen, entities[i]), entities, i + 1)

\* utils.deduplicate_entities
deduplicate_entities(entities) == DictValues(DedupLoop(DictEmpty, entities, 1))

\* the logger.warning of group_entities_by_source (if logger and missing_source)
LogMissingSource(lg, missing, entity_type) ==
    IF missing # <<>>
    THEN Append(lg, <<"entities without source field", entity_type, Len(missing)>>)
    ELSE lg

\* utils.Statistics.__init__ (the fields the JSON processors use)
NewStatistics == [errors |-> <<>>, warnings |-> <<>>, json_files |-> DictEmpty]


\* ------------------------------------------------------------------------
\* State
\* ------------------------------------------------------------------------

VARIABLES
    pc,              \* which call has been made
    entities,        \* argument of group_entities_by_source / deduplicate_entities
    grouped,         \* dict returned by group_entities_by_source
    missing_source,  \* local list of group_entities_by_source
    log,             \* the WARNING records logged so far
    deduped,         \* list returned by deduplicate_entities
    kind,            \* which part of data/ the corpus files belong to
    corpus,          \* the records of the corpus files, each with its file and key
    unloadable,      \* corpus files for which load_json returns nothing
    unwritable,      \* source directories under which save_json fails
    next_file,       \* position of the main loop of process_all_json_files
    out,             \* the files written under the output directory
    stats,           \* the Statistics object (errors, warnings, json_files)
    counts,          \* counts_per_source returned by the last processor
    ref,             \* the ImageRef being validated (source, path)
    disk,            \* the image files under img_dir
    validation,      \* results of the calls made for ref
    references,      \* what the reference check of the image copier has found
    data_dir,        \* the corpus read by the link check / the image audit
    checker,         \* the LinkChecker object
    auditor,         \* the ImagePathAuditor object
    lookups,         \* the calls of _find_entity made so far, with their results
    report,          \* the report of the current run
    exit_code,       \* the value returned by main
    run,             \* number of the current run of main
    first_report     \* the report of the first run

vars == <<pc, entities, grouped, missing_source, log, deduped,
          kind, corpus, unloadable, unwritable, next_file, out, stats, counts,
          ref, disk, validation, references,
          data_dir, checker, auditor, lookups, report, exit_code, run, first_report>>

imageVars == <<ref, disk, validation, references>>

partitionVars == <<kind, corpus, unloadable, unwritable, next_file, out, stats, counts>>

auditVars == <<data_dir, checker, auditor, lookups, report, exit_code, run, first_report>>

\* ------------------------------------------------------------------------
\* Specification of the entity utilities: the argument is any list of at
\* most MaxEntities entities; one of the two functions is applied to it.
\* ------------------------------------------------------------------------

EntityType == "spell"

\* no image reference is being validated
ImageIdle ==
    /\ ref = [source |-> "", path |-> <<>>]
    /\ disk = {}
    /\ validation = <<>>
    /\ references = <<>>

\* no link check and no image audit is running
AuditIdle ==
    /\ data_dir = <<>>
    /\ checker = <<>>
    /\ auditor = <<>>
    /\ lookups = <<>>
    /\ report = <<>>
    /\ exit_code = -1
    /\ run = 0
    /\ first_report = <<>>

InitEntities ==
    /\ ImageIdle
    /\ AuditIdle
    /\ pc = "start"
    /\ entities \in SeqsUpTo(Entities, MaxEntities)
    /\ grouped = DictEmpty
    /\ missing_source = <<>>
    /\ log = <<>>
    /\ deduped = <<>>
    /\ kind = "none"
    /\ corpus = <<>>
    /\ unloadable = {}
    /\ unwritable = {}
    /\ next_file = 1
    /\ out = <<>>
    /\ stats = NewStatistics
    /\ counts = DictEmpty

\* grouped = group_entities_by_source(entities, entity_type, logger)
CallGroup ==
    /\ pc = "start"
    /\ LET r == group_entities_by_source(entities, EntityType) IN
       /\ grouped' = r.grouped
       /\ missing_source' = r.missing_source
       \* if logger and missing_source: logger.warning(...)
       /\ log' = LogMissingSource(log, r.missing_source, EntityType)
    /\ pc' = "grouped"
    /\ UNCHANGED <<entities, deduped>>
    /\ UNCHANGED <<partitionVars, imageVars, auditVars>>

\* deduped = deduplicate_entities(entities)
CallDedup ==
    /\ pc = "start"
    /\ deduped' = deduplicate_entities(entities)
    /\ pc' = "deduped"
    /\ UNCHANGED <<entities, grouped, missing_source, log>>
    /\ UNCHANGED <<partitionVars, imageVars, auditVars>>

NextEntities == CallGroup \/ CallDedup

SpecEntities == InitEntities /\ [][NextEntities]_vars

\* ------------------------------------------------------------------------
\* The JSON processors (json_processor.py) over a corpus
\* ------------------------------------------------------------------------

\* number of records in the corpus
MaxRecords == 2

\* number of files in the corpus directory
NumFiles == 2

\* sources of books.json (the `sources` argument); "Homebrew" is not one
KnownSources == {"PHB", "XGE"}

CorpusEntities ==
    { [name |-> "Fireball", source |-> "PHB"],
      [name |-> "Fireball", source |-> "XGE"],
      [name |-> "Fireball", source |-> "Homebrew"],
      [name |-> "Fireball"] }

Kinds == {"main", "bestiary", "class", "fluff"}

\* names of the corpus files: <<"spells", f>> stands for the f-th file of
\* data/*.json, <<"bestiary-", f>> for the f-th of
\* data/bestiary/bestiary-*.json, <<"class-", f>> for the f-th of
\* data/class/class-*.json, <<"fluff-", f>> for the f-th of data/fluff-*.json
FileName(k, f) ==
    CASE k = "main"     -> <<"spells", f>>
      [] k = "bestiary" -> <<"bestiary-", f>>
      [] k = "class"    -> <<"class-", f>>
      [] k = "fluff"    -> <<"fluff-", f>>

\* the fixed output names bestiary.json and classes.json
BestiaryJson == <<"bestiary.json", 0>>
ClassesJson == <<"classes.json", 0>>

\* the array keys of a corpus file, in file order
FileKeys(k) ==
    CASE k = "main"     -> <<"spell", "item">>
      [] k = "bestiary" -> <<"monster", "legendaryGroup">>
      [] k = "class"    -> <<"class", "subclass">>
      [] k = "fluff"    -> <<"spellFluff", "itemFluff">>

\* a record of the corpus: the file and the array (position in FileKeys) it
\* is stored in
Placed == [file : 1..NumFiles, key : 1..2, entity : CorpusEntities]

\* the corpus lists the records file by file and array by array
Corpora ==
    { c \in SeqsUpTo(Placed, MaxRecords) :
        \A i \in 1..(Len(c) - 1) :
            \/ c[i].file < c[i + 1].file
            \/ (c[i].file = c[i + 1].file /\ c[i].key <= c[i + 1].key) }

\* config.ENTITY_TYPES
ENTITY_TYPES ==
    {"background", "item", "monster", "class", "subclass", "race", "feat", "spell",
     "deity", "condition", "disease", "language", "object", "vehicle", "hazard",
     "trap", "reward", "recipe", "cult", "boon", "optionalfeature", "skill",
     "sense", "psionic", "action"}

\* the first corpus file carries a "_meta" block, the second does not
HasMeta(f) == f = 1

\* the array stored in file f under its j-th key
FileArray(f, j) ==
    LET placed == SelectSeq(corpus, LAMBDA p : p.file = f /\ p.key = j)
    IN [i \in 1..Len(placed) |-> placed[i].entity]

\* utils.load_json: data.items() of the parsed file, <<>> for a file that
\* cannot be read or parsed (None) or that holds an empty object
load_json(f) ==
    IF f \in unloadable THEN <<>>
    ELSE (IF HasMeta(f) THEN << <<"_meta", <<"meta">> >> >> ELSE <<>>)
         \o [j \in 1..2 |-> <<FileKeys(kind)[j], FileArray(f, j)>>]

\* utils.extract_entities_from_json; entity_types = {} stands for None
extract_entities_from_json(data, entity_types) ==
    SelectSeq(data, LAMBDA kv :
        /\ kv[1] # "_meta"
        /\ (entity_types = {} \/ kv[1] \in entity_types)
        /\ kv[2] # <<>>)

\* "_meta" in data
DataHasMeta(data) == \E i \in 1..Len(data) : data[i][1] = "_meta"

\* the files written so far: path -> content, a path being
\* <<source_id, filename>> for output_dir/source_id/data/filename
FileExists(o, path) == path \in DOMAIN o

WriteFile(o, path, content) ==
    [q \in DOMAIN o \cup {path} |-> IF q = path THEN content ELSE o[q]]

\* utils.save_json: TRUE when the file could be written
save_json_ok(path) == path[1] \notin unwritable

\* counts_per_source[source_id] += n (0 when absent)
AddCount(c, source_id, n) ==
    DictSet(c, source_id, (IF DictHas(c, source_id) THEN c.at[source_id] ELSE 0) + n)

\* output_data of process_json_file / process_fluff_files
OutputData(data, entity_type, source_entities) ==
    IF DataHasMeta(data)
    THEN [k \in {"_meta", entity_type} |->
             IF k = entity_type THEN source_entities ELSE <<"meta">>]
    ELSE [k \in {entity_type} |-> source_entities]

\* JsonGroups leaving the loop at the first unknown source (`break` or an
\* exception in place of `continue`)
RECURSIVE JsonGroupsBreak(_, _, _, _, _, _)
JsonGroupsBreak(st, f, data, entity_type, g, i) ==
    IF i > Len(g.keys) THEN st
    ELSE
      LET source_id == g.keys[i]
          path == <<source_id, FileName(kind, f)>>
      IN IF source_id \notin KnownSources
         THEN [st EXCEPT
                 !.log = Append(@, <<"Unknown source", source_id, FileName(kind, f)>>),
                 !.stats.warnings =
                     Append(@, <<"Unknown source", source_id, FileName(kind, f)>>)]
         ELSE JsonGroupsBreak(
                 IF save_json_ok(path)
                 THEN [st EXCEPT
                         !.out = WriteFile(@, path,
                                     OutputData(data, entity_type, g.at[source_id])),
                         !.counts = AddCount(@, source_id, Len(g.at[source_id]))]
                 ELSE [st EXCEPT !.stats.errors = Append(@, <<"Failed to save", path>>)],
                 f, data, entity_type, g, i + 1)

\* process_json_file, lines 87-120: the loop over the groups of one entity
\* array; st = [out, stats, log, counts]
RECURSIVE JsonGroups(_, _, _, _, _, _)
JsonGroups(st, f, data, entity_type, g, i) ==
    IF i > Len(g.keys) THEN st
    ELSE
      LET source_id == g.keys[i]
          path == <<source_id, FileName(kind, f)>>
          st1 ==
            IF source_id \notin KnownSources
            THEN [st EXCEPT
                    !.log = Append(@, <<"Unknown source", source_id, FileName(kind, f)>>),
                    !.stats.warnings =
                        Append(@, <<"Unknown source", source_id, FileName(kind, f)>>)]
            ELSE IF save_json_ok(path)
            THEN [st EXCEPT
                    !.out = WriteFile(@, path, OutputData(data, entity_type, g.at[source_id])),
                    !.counts = AddCount(@, source_id, Len(g.at[source_id]))]
            ELSE [st EXCEPT !.stats.errors = Append(@, <<"Failed to save", path>>)]
      IN JsonGroups(st1, f, data, entity_type, g, i + 1)

\* process_json_file, lines 80-120: the loop over the entity arrays
RECURSIVE JsonArrays(_, _, _, _, _)
JsonArrays(st, f, data, entity_arrays, j) ==
    IF j > Len(entity_arrays) THEN st
    ELSE
      LET entity_type == entity_arrays[j][1]
          r == group_entities_by_source(entity_arrays[j][2], entity_type)
          st1 == [st EXCEPT !.log = LogMissingSource(@, r.missing_source, entity_type)]
      IN JsonArrays(JsonGroups(st1, f, data, entity_type, r.grouped, 1),
                    f, data, entity_arrays, j + 1)

\* json_processor.process_json_file; st.counts is the dict returned
process_json_file(st, f) ==
    LET data == load_json(f)
        st0 == [st EXCEPT !.counts = DictEmpty]
    IN IF data = <<>>
       THEN [st0 EXCEPT !.stats.errors = Append(@, <<"Failed to load", FileName(kind, f)>>)]
       ELSE LET entity_arrays == extract_entities_from_json(data, ENTITY_TYPES)
            IN IF entity_arrays = <<>> THEN st0
               ELSE JsonArrays(st0, f, data, entity_arrays, 1)

\* stats.add_json_stats(name, counts) when counts is not empty
AddJsonStats(st, name) ==
    IF st.counts.keys # <<>>
    THEN [st EXCEPT !.stats.json_files = DictSet(@, name, st.counts)]
    ELSE st


\* BestiaryLoad giving up at the first file that fails to load (`break`
\* or an exception in place of `continue`)
RECURSIVE BestiaryLoadBreak(_, _, _)
BestiaryLoadBreak(st, all_monsters, f) ==
    IF f > NumFiles THEN [st |-> st, all_monsters |-> all_monsters]
    ELSE
      LET data == load_json(f) IN
      IF data = <<>>
      THEN [st |-> [st EXCEPT !.stats.errors =
                       Append(@, <<"Failed to load", FileName(kind, f)>>)],
            all_monsters |-> all_monsters]
      ELSE LET found == SelectSeq(data, LAMBDA kv : kv[1] = "monster")
           IN BestiaryLoadBreak(st,
                  IF found # <<>> THEN all_monsters \o found[1][2] ELSE all_monsters,
                  f + 1)

\* process_bestiary_files, lines 164-177: the monsters of every loadable
\* bestiary file, in file order; a file that fails to load is recorded as
\* an error and skipped
RECURSIVE BestiaryLoad(_, _, _)
BestiaryLoad(st, all_monsters, f) ==
    IF f > NumFiles THEN [st |-> st, all_monsters |-> all_monsters]
    ELSE
      LET data == load_json(f) IN
      IF data = <<>>
      THEN BestiaryLoad(
               [st EXCEPT !.stats.errors = Append(@, <<"Failed to load", FileName(kind, f)>>)],
               all_monsters, f + 1)
      ELSE LET found == SelectSeq(data, LAMBDA kv : kv[1] = "monster")
           IN BestiaryLoad(st,
                  IF found # <<>> THEN all_monsters \o found[1][2] ELSE all_monsters,
                  f + 1)

\* process_bestiary_files, lines 187-206: the loop over the groups
RECURSIVE BestiaryGroups(_, _, _)
BestiaryGroups(st, g, i) ==
    IF i > Len(g.keys) THEN st
    ELSE
      LET source_id == g.keys[i]
          path == <<source_id, BestiaryJson>>
          st1 ==
            IF source_id \notin KnownSources
            THEN [st EXCEPT !.log = Append(@, <<"Unknown source", source_id, "bestiary">>)]
            ELSE IF save_json_ok(path)
            THEN [st EXCEPT
                    !.out = WriteFile(@, path, [k \in {"monster"} |-> g.at[source_id]]),
                    !.counts = DictSet(@, source_id, Len(g.at[source_id]))]
            ELSE st
      IN BestiaryGroups(st1, g, i + 1)

\* json_processor.process_bestiary_files (the directory exists and holds
\* the NumFiles bestiary files)
process_bestiary_files(st) ==
    LET l == BestiaryLoad([st EXCEPT !.counts = DictEmpty], <<>>, 1)
        r == group_entities_by_source(l.all_monsters, "monster")
        st1 == [l.st EXCEPT !.log = LogMissingSource(@, r.missing_source, "monster")]
    IN BestiaryGroups(st1, r.grouped, 1)

\* process_class_files, lines 266-274: merge the keys of one file
RECURSIVE ClassMerge(_, _, _)
ClassMerge(all_class_data, data, i) ==
    IF i > Len(data) THEN all_class_data
    ELSE
      LET key == data[i][1] IN
      IF key = "_meta" THEN ClassMerge(all_class_data, data, i + 1)
      ELSE LET a0 == IF ~DictHas(all_class_data, key)
                     THEN DictSet(all_class_data, key, <<>>)
                     ELSE all_class_data
           IN ClassMerge(DictSet(a0, key, a0.at[key] \o data[i][2]), data, i + 1)

\* process_class_files, lines 256-274: the loop over the class files
RECURSIVE ClassLoad(_, _, _)
ClassLoad(st, all_class_data, f) ==
    IF f > NumFiles THEN [st |-> st, all_class_data |-> all_class_data]
    ELSE
      LET data == load_json(f) IN
      IF data = <<>>
      THEN ClassLoad(
               [st EXCEPT !.stats.errors = Append(@, <<"Failed to load", FileName(kind, f)>>)],
               all_class_data, f + 1)
      ELSE ClassLoad(st, ClassMerge(all_class_data, data, 1), f + 1)

\* process_class_files, lines 287-315: the loop over the groups; the
\* existing classes.json of the source is loaded and extended
RECURSIVE ClassGroups(_, _, _, _)
ClassGroups(st, entity_type, g, i) ==
    IF i > Len(g.keys) THEN st
    ELSE
      LET source_id == g.keys[i]
          path == <<source_id, ClassesJson>>
          existing == IF FileExists(st.out, path) THEN st.out[path] ELSE <<>>
          before == IF entity_type \in DOMAIN existing THEN existing[entity_type] ELSE <<>>
          output_data ==
              [k \in DOMAIN existing \cup {entity_type} |->
                  IF k = entity_type THEN before \o g.at[source_id] ELSE existing[k]]
          st1 ==
            IF source_id \notin KnownSources
            THEN [st EXCEPT !.log = Append(@, <<"Unknown source", source_id, "class files">>)]
            ELSE IF save_json_ok(path)
            THEN [st EXCEPT
                    !.out = WriteFile(@, path, output_data),
                    !.counts = AddCount(@, source_id, Len(g.at[source_id]))]
            ELSE st
      IN ClassGroups(st1, entity_type, g, i + 1)

\* process_class_files, lines 279-315: the loop over the merged keys
RECURSIVE ClassTypes(_, _, _)
ClassTypes(st, all_class_data, j) ==
    IF j > Len(all_class_data.keys) THEN st
    ELSE
      LET entity_type == all_class_data.keys[j]
          entities_ == all_class_data.at[entity_type]
      IN IF entities_ = <<>> THEN ClassTypes(st, all_class_data, j + 1)
         ELSE LET r == group_entities_by_source(entities_, entity_type)
                  st1 == [st EXCEPT
                            !.log = LogMissingSource(@, r.missing_source, entity_type)]
              IN ClassTypes(ClassGroups(st1, entity_type, r.grouped, 1),
                            all_class_data, j + 1)

\* json_processor.process_class_files (the directory exists and holds the
\* NumFiles class files)
process_class_files(st) ==
    LET l == ClassLoad([st EXCEPT !.counts = DictEmpty], DictEmpty, 1)
    IN ClassTypes(l.st, l.all_class_data, 1)

\* process_fluff_files, lines 389-413: the loop over the groups
RECURSIVE FluffGroups(_, _, _, _, _, _)
FluffGroups(st, f, data, entity_type, g, i) ==
    IF i > Len(g.keys) THEN st
    ELSE
      LET source_id == g.keys[i]
          path == <<source_id, FileName(kind, f)>>
          st1 ==
            IF source_id \notin KnownSources
            THEN [st EXCEPT
                    !.log = Append(@, <<"Unknown source", source_id, FileName(kind, f)>>)]
            ELSE IF save_json_ok(path)
            THEN [st EXCEPT
                    !.out = WriteFile(@, path, OutputData(data, entity_type, g.at[source_id])),
                    !.counts = AddCount(@, source_id, Len(g.at[source_id]))]
            ELSE st
      IN FluffGroups(st1, f, data, entity_type, g, i + 1)

\* process_fluff_files, lines 385-413: the loop over the entity arrays
RECURSIVE FluffArrays(_, _, _, _, _)
FluffArrays(st, f, data, entity_arrays, j) ==
    IF j > Len(entity_arrays) THEN st
    ELSE
      LET entity_type == entity_arrays[j][1]
          r == group_entities_by_source(entity_arrays[j][2], entity_type)
          st1 == [st EXCEPT !.log = LogMissingSource(@, r.missing_source, entity_type)]
      IN FluffArrays(FluffGroups(st1, f, data, entity_type, r.grouped, 1),
                     f, data, entity_arrays, j + 1)

\* process_fluff_files, lines 359-413: the loop over the fluff files
RECURSIVE FluffFiles(_, _)
FluffFiles(st, f) ==
    IF f > NumFiles THEN st
    ELSE
      LET data == load_json(f) IN
      IF data = <<>>
      THEN FluffFiles(
               [st EXCEPT !.stats.errors = Append(@, <<"Failed to load", FileName(kind, f)>>)],
               f + 1)
      ELSE LET entity_arrays == extract_entities_from_json(data, {})
           IN IF entity_arrays = <<>> THEN FluffFiles(st, f + 1)
              ELSE FluffFiles(FluffArrays(st, f, data, entity_arrays, 1), f + 1)

\* json_processor.process_fluff_files; data/fluff-*.json exist only in a
\* fluff corpus
process_fluff_files(st) ==
    IF kind # "fluff"
    THEN [st EXCEPT !.counts = DictEmpty, !.log = Append(@, <<"No fluff files found">>)]
    ELSE FluffFiles([st EXCEPT !.counts = DictEmpty], 1)

\* ------------------------------------------------------------------------
\* Specification of the JSON step of the reorganisation: the statements of
\* process_all_json_files (called with skip_special_dirs = False) followed
\* by the bestiary and class calls of reorganize_data.main.
\* ------------------------------------------------------------------------

Steps == <<"json", "all_bestiary", "all_class", "fluff", "main_bestiary", "main_class", "done">>

\* whether the statement has anything to run on: data/*.json files,
\* bestiary_dir.exists(), class_dir.exists()
Applicable(step, k) ==
    CASE step = "json" -> k \in {"main", "fluff"}
      [] step \in {"all_bestiary", "main_bestiary"} -> k = "bestiary"
      [] step \in {"all_class", "main_class"} -> k = "class"
      [] OTHER -> TRUE

StepIndex(step) == CHOOSE i \in 1..Len(Steps) : Steps[i] = step

\* the first statement from position i on that has something to run on
RECURSIVE FirstApplicable(_, _)
FirstApplicable(i, k) ==
    IF Applicable(Steps[i], k) THEN Steps[i] ELSE FirstApplicable(i + 1, k)

NextPc(step, k) == FirstApplicable(StepIndex(step) + 1, k)

St == [out |-> out, stats |-> stats, log |-> log, counts |-> counts]

Commit(st) ==
    /\ out' = st.out
    /\ stats' = st.stats
    /\ log' = st.log
    /\ counts' = st.counts

InitPartition ==
    /\ ImageIdle
    /\ AuditIdle
    /\ kind \in Kinds
    /\ corpus \in Corpora
    /\ unloadable \in {{}} \cup { {f} : f \in 1..NumFiles }
    /\ unwritable \in {{}, {"XGE"}}
    /\ pc = FirstApplicable(1, kind)
    /\ next_file = 1
    /\ out = <<>>
    /\ stats = NewStatistics
    /\ log = <<>>
    /\ counts = DictEmpty
    /\ entities = <<>>
    /\ grouped = DictEmpty
    /\ missing_source = <<>>
    /\ deduped = <<>>

envVars == <<kind, corpus, unloadable, unwritable, entities, grouped, missing_source, deduped,
            imageVars, auditVars>>

\* process_all_json_files, lines 458-464: one iteration of the main loop
ProcessJsonFile ==
    /\ pc = "json"
    /\ Commit(AddJsonStats(process_json_file(St, next_file), FileName(kind, next_file)))
    /\ next_file' = next_file + 1
    /\ pc' = IF next_file = NumFiles THEN NextPc("json", kind) ELSE pc
    /\ UNCHANGED envVars

\* process_all_json_files, lines 469-473
AllBestiary ==
    /\ pc = "all_bestiary"
    /\ Commit(AddJsonStats(process_bestiary_files(St), "bestiary"))
    /\ pc' = NextPc("all_bestiary", kind)
    /\ UNCHANGED <<next_file, envVars>>

\* process_all_json_files, lines 476-480
AllClass ==
    /\ pc = "all_class"
    /\ Commit(AddJsonStats(process_class_files(St), "class"))
    /\ pc' = NextPc("all_class", kind)
    /\ UNCHANGED <<next_file, envVars>>

\* process_all_json_files, lines 483-485
AllFluff ==
    /\ pc = "fluff"
    /\ Commit(AddJsonStats(process_fluff_files(St), "fluff"))
    /\ pc' = NextPc("fluff", kind)
    /\ UNCHANGED <<next_file, envVars>>

\* reorganize_data.main, lines 227-233
MainBestiary ==
    /\ pc = "main_bestiary"
    /\ Commit(AddJsonStats(process_bestiary_files(St), "bestiary"))
    /\ pc' = NextPc("main_bestiary", kind)
    /\ UNCHANGED <<next_file, envVars>>

\* reorganize_data.main, lines 235-241
MainClass ==
    /\ pc = "main_class"
    /\ Commit(AddJsonStats(process_class_files(St), "class"))
    /\ pc' = NextPc("main_class", kind)
    /\ UNCHANGED <<next_file, envVars>>

\* what run_validation reports: "" when validation is skipped (or only
\* the quick check is asked for) and validation_report stays None, else
\* the overall_status computed from the exit codes of the validation
\* scripts
ValidationStatuses == {"", "passed", "failed"}

\* the errors the image and PDF copiers add to the statistics
CopyErrors == { <<>>, << <<"Failed to copy", "img">> >> }

\* utils.create_report over Statistics.to_dict()
create_report(sources_processed, statistics, errors, warnings) ==
    [sources_processed |-> sources_processed,
     statistics |-> statistics,
     errors |-> errors,
     warnings |-> warnings,
     success |-> Len(errors) = 0]

\* Statistics.to_dict (the tallies of the JSON step and the totals)
to_dict(st) ==
    [json_files |-> st.json_files,
     total_errors |-> Len(st.errors),
     total_warnings |-> Len(st.warnings)]

\* the exit code of reorganize_data.main, lines 352-355
MainExitCode(overall_status) == IF overall_status = "failed" THEN 1 ELSE 0

\* reorganize_data.main, lines 260-355: the copy steps, the quick
\* integrity check (its result is not used), the validation, the report
\* and the exit code
MainReturn ==
    /\ pc = "done"
    /\ \E copy_errors \in CopyErrors, overall_status \in ValidationStatuses :
          LET st == [stats EXCEPT !.errors = @ \o copy_errors] IN
          /\ stats' = st
          /\ report' = create_report(Cardinality(KnownSources), to_dict(st),
                                     st.errors, st.warnings)
          /\ exit_code' = MainExitCode(overall_status)
    /\ pc' = "returned"
    /\ UNCHANGED <<kind, corpus, unloadable, unwritable, next_file, out, log, counts,
                   entities, grouped, missing_source, deduped, imageVars,
                   data_dir, checker, auditor, lookups, run, first_report>>

NextPartition ==
    \/ ProcessJsonFile
    \/ AllBestiary
    \/ AllClass
    \/ AllFluff
    \/ MainBestiary
    \/ MainClass
    \/ MainReturn

SpecPartition == InitPartition /\ [][NextPartition]_vars

\* group_entities_by_source called on its own and from the processors
SpecQuarantine ==
    (InitEntities \/ InitPartition) /\ [][CallGroup \/ NextPartition]_vars


\* ------------------------------------------------------------------------
\* Image path resolution and classification (image_path_utils.py)
\*
\* A path string is held as the sequence of its "/"-separated segments
\* ("book/PSA/001.webp" is <<"book", "PSA", "001.webp">>), a pathlib.Path
\* as its segments below img_dir.  Asset paths are taken without empty
\* segments (no leading, trailing or doubled "/").
\* ------------------------------------------------------------------------

\* longest asset path, in segments
MaxPathLen == 4

\* most image files on disk
MaxDiskFiles == 2

\* config.IMAGE_PATH_SPECIAL_MAPPINGS
IMAGE_PATH_SPECIAL_MAPPINGS ==
    ("PS-A" :> "PSA")
    @@ ("PS-I" :> "PSI")
    @@ ("PS-D" :> "PSD")
    @@ ("PS-K" :> "PSK")
    @@ ("PS-X" :> "PSX")
    @@ ("PS-Z" :> "PSZ")
    @@ ("HAT-TG" :> "TG")
    @@ ("AitFR-AVT" :> "AitFR/AVT")
    @@ ("AitFR-DN" :> "AitFR/DN")
    @@ ("AitFR-FCD" :> "AitFR/FCD")
    @@ ("AitFR-ISF" :> "AitFR/ISF")
    @@ ("AitFR-THP" :> "AitFR/THP")
    @@ ("MCV1SC" :> "MCV/1SC")
    @@ ("MCV2DC" :> "MCV/2DC")
    @@ ("MCV3MC" :> "MCV/3MC")
    @@ ("MCV4EC" :> "MCV/4EC")
    @@ ("TftYP-AtG" :> "TftYP/AtG")
    @@ ("TftYP-DiT" :> "TftYP/DiT")
    @@ ("TftYP-TFoF" :> "TftYP/TFoF")
    @@ ("TftYP-THSoT" :> "TftYP/THSoT")
    @@ ("TftYP-TSC" :> "TftYP/TSC")
    @@ ("TftYP-ToH" :> "TftYP/ToH")
    @@ ("TftYP-WPM" :> "TftYP/WPM")
    @@ ("NRH-ASS" :> "NRH/ASS")
    @@ ("NRH-AT" :> "NRH/AT")
    @@ ("NRH-AVitW" :> "NRH/AVitW")
    @@ ("NRH-AWoL" :> "NRH/AWoL")
    @@ ("NRH-CoI" :> "NRH/CoI")
    @@ ("NRH-TCMC" :> "NRH/TCMC")
    @@ ("NRH-TLT" :> "NRH/TLT")
    @@ ("HAT-LMI" :> "HAT/LMI")

\* x.split("/") for a source identifier or a value of the table
SplitSlash(x) ==
    CASE x = "AitFR/AVT" -> <<"AitFR", "AVT">>
      [] x = "AitFR/DN" -> <<"AitFR", "DN">>
      [] x = "AitFR/FCD" -> <<"AitFR", "FCD">>
      [] x = "AitFR/ISF" -> <<"AitFR", "ISF">>
      [] x = "AitFR/THP" -> <<"AitFR", "THP">>
      [] x = "MCV/1SC" -> <<"MCV", "1SC">>
      [] x = "MCV/2DC" -> <<"MCV", "2DC">>
      [] x = "MCV/3MC" -> <<"MCV", "3MC">>
      [] x = "MCV/4EC" -> <<"MCV", "4EC">>
      [] x = "TftYP/AtG" -> <<"TftYP", "AtG">>
      [] x = "TftYP/DiT" -> <<"TftYP", "DiT">>
      [] x = "TftYP/TFoF" -> <<"TftYP", "TFoF">>
      [] x = "TftYP/THSoT" -> <<"TftYP", "THSoT">>
      [] x = "TftYP/TSC" -> <<"TftYP", "TSC">>
      [] x = "TftYP/ToH" -> <<"TftYP", "ToH">>
      [] x = "TftYP/WPM" -> <<"TftYP", "WPM">>
      [] x = "NRH/ASS" -> <<"NRH", "ASS">>
      [] x = "NRH/AT" -> <<"NRH", "AT">>
      [] x = "NRH/AVitW" -> <<"NRH", "AVitW">>
      [] x = "NRH/AWoL" -> <<"NRH", "AWoL">>
      [] x = "NRH/CoI" -> <<"NRH", "CoI">>
      [] x = "NRH/TCMC" -> <<"NRH", "TCMC">>
      [] x = "NRH/TLT" -> <<"NRH", "TLT">>
      [] x = "HAT/LMI" -> <<"HAT", "LMI">>
      [] OTHER -> <<x>>

\* None, where a Path is expected
NoPath == <<>>

\* Path.exists(): a file of the disk, or a directory holding one
Exists(path) ==
    \E file \in disk : Len(path) <= Len(file) /\ SubSeq(file, 1, Len(path)) = path

\* normalize_source_for_image_path ignoring the override table
NormalizeIdentity(source_id) == source_id

\* image_path_utils.normalize_source_for_image_path (every value of the
\* table is a str, so the isinstance(mapping, dict) branch is never taken)
normalize_source_for_image_path(source_id) ==
    IF source_id \in DOMAIN IMAGE_PATH_SPECIAL_MAPPINGS
    THEN IMAGE_PATH_SPECIAL_MAPPINGS[source_id]
    ELSE source_id

\* get_expected_image_path comparing the path's source component with the
\* source identifier instead of its normalized form
ExpectedBySourceId(source_id, image_path) ==
    IF Len(image_path) < 2 THEN NoPath
    ELSE IF Tail(image_path)[1] # source_id THEN NoPath
    ELSE <<image_path[1]>> \o Tail(image_path)

\* get_expected_image_path without the test for a cross-source reference
ExpectedUnchecked(source_id, image_path) ==
    IF Len(image_path) < 2 THEN NoPath
    ELSE <<image_path[1]>> \o Tail(image_path)

\* image_path_utils.get_expected_image_path
get_expected_image_path(source_id, image_path) ==
    \* parts = image_path.split("/", 1); len(parts) != 2
    IF Len(image_path) < 2 THEN NoPath
    ELSE
      LET category == image_path[1]
          rest == Tail(image_path)
          path_source == rest[1]
          normalized_source == normalize_source_for_image_path(source_id)
      IN IF path_source # normalized_source THEN NoPath
         ELSE <<category>> \o rest

\* get_actual_image_path without the probe of the normalized directory
ActualDirectOnly(source_id, image_path) ==
    IF Len(image_path) < 2 THEN NoPath
    ELSE IF Exists(image_path) THEN image_path ELSE NoPath

\* image_path_utils.get_actual_image_path
get_actual_image_path(source_id, image_path) ==
    IF Len(image_path) < 2 THEN NoPath
    ELSE
      LET category == image_path[1]
          path_parts == Tail(image_path)
          path_source == path_parts[1]
          \* subpath is None when the path ends at its source component
          subpath == IF Len(path_parts) > 1 THEN Tail(path_parts) ELSE <<>>
          direct_path == <<category, path_source>> \o subpath
          normalized == normalize_source_for_image_path(source_id)
          normalized_path == <<category>> \o SplitSlash(normalized) \o subpath
          tg_path == <<category, "TG">> \o subpath
      IN IF Exists(direct_path) THEN direct_path
         ELSE IF Exists(normalized_path) /\ normalized_path # direct_path
         THEN normalized_path
         ELSE IF source_id = "HAT-TG" /\ path_source = "TG" /\ Exists(tg_path)
         THEN tg_path
         ELSE NoPath

ValidationResult(status, actual_path, expected_path, severity) ==
    [status |-> status, actual_path |-> actual_path,
     expected_path |-> expected_path, severity |-> severity]

\* validate_image_reference testing for the file before testing for a
\* cross-source reference
ValidateExistsBeforeCross(r) ==
    LET expected_path == get_expected_image_path(r.source, r.path)
        actual_path == get_actual_image_path(r.source, r.path)
        normalized == normalize_source_for_image_path(r.source)
        path_source == IF Len(r.path) >= 2 THEN r.path[2] ELSE ""
    IN IF /\ r.source \in DOMAIN IMAGE_PATH_SPECIAL_MAPPINGS
          /\ path_source = normalized
          /\ actual_path # NoPath /\ Exists(actual_path)
       THEN ValidationResult("special_case", actual_path, expected_path, "info")
       ELSE IF actual_path # NoPath /\ Exists(actual_path)
       THEN IF actual_path = expected_path
            THEN ValidationResult("valid", actual_path, expected_path, "info")
            ELSE ValidationResult("unexpected_location", actual_path, expected_path, "warning")
       ELSE IF expected_path = NoPath
       THEN ValidationResult("cross_source", actual_path, NoPath, "info")
       ELSE ValidationResult("missing", NoPath, expected_path, "critical")

\* validate_image_reference reporting an absent file as a cross-source
\* reference
ValidateAbsentAsCross(r) ==
    LET expected_path == get_expected_image_path(r.source, r.path)
        actual_path == get_actual_image_path(r.source, r.path)
        normalized == normalize_source_for_image_path(r.source)
        path_source == IF Len(r.path) >= 2 THEN r.path[2] ELSE ""
    IN IF /\ r.source \in DOMAIN IMAGE_PATH_SPECIAL_MAPPINGS
          /\ path_source = normalized
          /\ actual_path # NoPath /\ Exists(actual_path)
       THEN ValidationResult("special_case", actual_path, expected_path, "info")
       ELSE IF expected_path = NoPath \/ actual_path = NoPath
       THEN ValidationResult("cross_source", actual_path, NoPath, "info")
       ELSE IF actual_path = expected_path
       THEN ValidationResult("valid", actual_path, expected_path, "info")
       ELSE ValidationResult("unexpected_location", actual_path, expected_path, "warning")

\* validate_image_reference reporting every file it finds as out of place
ValidateFoundAsUnexpected(r) ==
    LET expected_path == get_expected_image_path(r.source, r.path)
        actual_path == get_actual_image_path(r.source, r.path)
        normalized == normalize_source_for_image_path(r.source)
        path_source == IF Len(r.path) >= 2 THEN r.path[2] ELSE ""
    IN IF /\ r.source \in DOMAIN IMAGE_PATH_SPECIAL_MAPPINGS
          /\ path_source = normalized
          /\ actual_path # NoPath /\ Exists(actual_path)
       THEN ValidationResult("special_case", actual_path, expected_path, "info")
       ELSE IF expected_path = NoPath
       THEN ValidationResult("cross_source", actual_path, NoPath, "info")
       ELSE IF actual_path # NoPath /\ Exists(actual_path)
       THEN ValidationResult("unexpected_location", actual_path, expected_path, "warning")
       ELSE ValidationResult("missing", NoPath, expected_path, "critical")

\* validate_image_reference grading a cross-source reference as a warning
ValidateCrossAsWarning(r) ==
    LET expected_path == get_expected_image_path(r.source, r.path)
        actual_path == get_actual_image_path(r.source, r.path)
        normalized == normalize_source_for_image_path(r.source)
        path_source == IF Len(r.path) >= 2 THEN r.path[2] ELSE ""
    IN IF /\ r.source \in DOMAIN IMAGE_PATH_SPECIAL_MAPPINGS
          /\ path_source = normalized
          /\ actual_path # NoPath /\ Exists(actual_path)
       THEN ValidationResult("special_case", actual_path, expected_path, "info")
       ELSE IF expected_path = NoPath
       THEN ValidationResult("cross_source", actual_path, NoPath, "warning")
       ELSE IF actual_path # NoPath /\ Exists(actual_path)
       THEN IF actual_path = expected_path
            THEN ValidationResult("valid", actual_path, expected_path, "info")
            ELSE ValidationResult("unexpected_location", actual_path, expected_path, "warning")
       ELSE ValidationResult("missing", NoPath, expected_path, "critical")

\* image_path_utils.validate_image_reference
validate_image_reference(r) ==
    LET expected_path == get_expected_image_path(r.source, r.path)
        actual_path == get_actual_image_path(r.source, r.path)
        normalized == normalize_source_for_image_path(r.source)
        path_source == IF Len(r.path) >= 2 THEN r.path[2] ELSE ""
    IN IF /\ r.source \in DOMAIN IMAGE_PATH_SPECIAL_MAPPINGS
          /\ path_source = normalized
          /\ actual_path # NoPath /\ Exists(actual_path)
       THEN ValidationResult("special_case", actual_path, expected_path, "info")
       ELSE IF expected_path = NoPath
       THEN ValidationResult("cross_source", actual_path, NoPath, "info")
       ELSE IF actual_path # NoPath /\ Exists(actual_path)
       THEN IF actual_path = expected_path
            THEN ValidationResult("valid", actual_path, expected_path, "info")
            ELSE ValidationResult("unexpected_location", actual_path, expected_path, "warning")
       ELSE ValidationResult("missing", NoPath, expected_path, "critical")

\* ------------------------------------------------------------------------
\* Specification of the image classification: one reference of one source
\* is validated against one state of the image tree.
\* ------------------------------------------------------------------------

\* source directories audited: a plain source, an abbreviated one, the
\* HAT-TG exception and a base/sub one
ImageSources == {"PHB", "PS-A", "HAT-TG", "AitFR-AVT"}

\* segments that follow the category in an asset path
TailSegments == {"PHB", "PS-A", "PSA", "TG", "AitFR", "AVT", "001.webp"}

\* asset paths: a lone segment (malformed) or "book/..." 
ImagePaths ==
    { <<x>> : x \in {"book", "001.webp"} }
    \cup { <<"book">> \o t : t \in UNION { [1..n -> TailSegments] : n \in 1..(MaxPathLen - 1) } }

\* image files that may be present under img_dir
DiskCandidates ==
    { <<"book", "PHB", "001.webp">>,
      <<"book", "PSA", "001.webp">>,
      <<"book", "PS-A", "001.webp">>,
      <<"book", "TG", "001.webp">>,
      <<"book", "AitFR", "AVT", "001.webp">>,
      <<"book", "AitFR", "AVT", "AVT", "001.webp">> }

Disks == { d \in SUBSET DiskCandidates : Cardinality(d) <= MaxDiskFiles }

\* every source identifier of the override table, and two outside it
TableSources == DOMAIN IMAGE_PATH_SPECIAL_MAPPINGS \cup {"PHB", "DMG"}

InitImage ==
    /\ AuditIdle
    /\ pc = "ref"
    /\ \/ /\ ref \in [source : ImageSources, path : ImagePaths]
          /\ disk \in Disks
       \/ /\ ref \in [source : TableSources, path : {<<"book", "PHB", "001.webp">>}]
          /\ disk = {}
    /\ validation = <<>>
    /\ references = <<>>
    /\ entities = <<>>
    /\ grouped = DictEmpty
    /\ missing_source = <<>>
    /\ log = <<>>
    /\ deduped = <<>>
    /\ kind = "none"
    /\ corpus = <<>>
    /\ unloadable = {}
    /\ unwritable = {}
    /\ next_file = 1
    /\ out = <<>>
    /\ stats = NewStatistics
    /\ counts = DictEmpty

\* validation = validate_image_reference(ref, img_dir), with the values of
\* the three calls it makes (lines 302-308)
ValidateImageReference ==
    /\ pc = "ref"
    /\ validation' =
          [normalized    |-> normalize_source_for_image_path(ref.source),
           expected_path |-> get_expected_image_path(ref.source, ref.path),
           actual_path   |-> get_actual_image_path(ref.source, ref.path),
           result        |-> validate_image_reference(ref)]
    /\ pc' = "validated"
    /\ UNCHANGED <<ref, disk, references, entities, grouped, missing_source, log, deduped,
                   partitionVars, auditVars>>

NextImage == ValidateImageReference

SpecImage == InitImage /\ [][NextImage]_vars


\* ------------------------------------------------------------------------
\* Link check (check_links.py)
\*
\* A string leaf is held as the sequence of the matches TAG_PATTERN finds
\* in it, in order; a match is [kind |-> group(1), parts |-> the pieces of
\* group(2) between "|"] and stands for the text of the tag as well.  The
\* name and the source of a record are strings without tags.
\* ------------------------------------------------------------------------

\* most tags in one string leaf
MaxTags == 2

\* most runs of main over one corpus
MaxRuns == 2

\* LinkChecker.ENTITY_TAGS
ENTITY_TAGS ==
    { "spell", "item", "creature", "feat", "race", "background",
      "deity", "class", "subclass", "condition", "disease", "skill",
      "language", "cult", "boon", "object", "vehicle", "optionalfeature",
      "variantrule", "charoption", "card", "group", "recipe", "reward",
      "sense", "trap", "hazard", "creatureTemplate" }

\* category_map of LinkChecker._find_entity
category_map ==
    ("spell" :> "spell")
    @@ ("item" :> "item")
    @@ ("creature" :> "monster")
    @@ ("feat" :> "feat")
    @@ ("race" :> "race")
    @@ ("background" :> "background")
    @@ ("deity" :> "deity")
    @@ ("class" :> "class")
    @@ ("subclass" :> "subclass")
    @@ ("condition" :> "condition")
    @@ ("disease" :> "disease")
    @@ ("language" :> "language")
    @@ ("card" :> "card")

\* str.lower()
Lower(x) ==
    CASE x = "Fireball" -> "fireball"
      [] x = "Shield" -> "shield"
      [] x = "Goblin" -> "goblin"
      [] x = "Stealth" -> "stealth"
      [] x = "PHB" -> "phb"
      [] x = " PHB" -> " phb"
      [] x = "XGE" -> "xge"
      [] x = "MM" -> "mm"
      [] OTHER -> x

\* str.strip()
Strip(x) ==
    CASE x = " PHB" -> "PHB"
      [] x = " phb" -> "phb"
      [] OTHER -> x

\* `a in b` for two strings: among the tag kinds and the categories of the
\* corpus no name is a proper part of another
IsSubstring(a, b) == a = b

\* None, where an indexed record is expected
NoEntity == <<>>

\* LinkChecker.__init__ keeping the fields of the checker of the run before
LinkCheckerReused(dir) ==
    IF checker # <<>> THEN checker
    ELSE [entities |-> DictEmpty, broken_links |-> <<>>,
          cross_source_links |-> <<>>, total_links_checked |-> 0]

\* LinkChecker.__init__
LinkChecker(dir) ==
    [entities |-> DictEmpty,
     broken_links |-> <<>>,
     cross_source_links |-> <<>>,
     total_links_checked |-> 0]

\* self.entities[category][source].append(rec), both levels a defaultdict
IndexAppend(ents, category, source, rec) ==
    LET inner == IF DictHas(ents, category) THEN ents.at[category] ELSE DictEmpty
        list == IF DictHas(inner, source) THEN inner.at[source] ELSE <<>>
    IN DictSet(ents, category, DictSet(inner, source, Append(list, rec)))

\* entity.get("name") or entity.get("id") or entity.get("shortName")
NameOrId(entity) ==
    IF "name" \in DOMAIN entity /\ ~Falsy(entity.name) THEN entity.name
    ELSE IF "id" \in DOMAIN entity /\ ~Falsy(entity.id) THEN entity.id
    ELSE IF "shortName" \in DOMAIN entity THEN entity.shortName
    ELSE ""

\* LinkChecker._process_entities
RECURSIVE _process_entities(_, _, _, _)
_process_entities(ents, list, category, source_file) ==
    IF list = <<>> THEN ents
    ELSE
      LET entity == Head(list)
          name == NameOrId(entity)
          source == IF "source" \in DOMAIN entity THEN entity.source ELSE ""
          indexed ==
              IF ~Falsy(name) /\ ~Falsy(source)
              THEN IndexAppend(ents, category, source,
                               [name |-> name, source |-> source,
                                data |-> entity, file |-> source_file])
              ELSE ents
      IN _process_entities(indexed, Tail(list), category, source_file)

\* the files a corpus may hold
PhbSpells == <<"PHB", "spells.json">>
XgeSpells == <<"XGE", "spells.json">>
MmBestiary == <<"MM", "bestiary.json">>
LinkFiles == {PhbSpells, XgeSpells, MmBestiary}

\* data.items() of a file; the first spell of the PHB carries the text
FileItems(file, text) ==
    CASE file = PhbSpells ->
           << <<"spell", << [name |-> "Fireball", source |-> "PHB", entries |-> <<text>>],
                            [name |-> "Shield", entries |-> <<>>] >> >> >>
      [] file = XgeSpells ->
           << <<"spell", << [name |-> "Shield", source |-> "XGE", entries |-> <<>>],
                            [name |-> "Fireball", source |-> "XGE", entries |-> <<>>] >> >> >>
      [] file = MmBestiary ->
           << <<"monster", << [name |-> "Goblin", source |-> "MM", entries |-> <<>>] >> >> >>

\* load_all_data, lines 120-122: the arrays of one file
RECURSIVE LoadItems(_, _, _)
LoadItems(ents, items, file) ==
    IF items = <<>> THEN ents
    ELSE LoadItems(_process_entities(ents, Head(items)[2], Head(items)[1], file),
                   Tail(items), file)

\* LinkChecker.load_all_data over the files in the order the directory
\* listing gives them
RECURSIVE load_all_data(_, _, _)
load_all_data(ents, json_files, text) ==
    IF json_files = <<>> THEN ents
    ELSE load_all_data(LoadItems(ents, FileItems(Head(json_files), text), Head(json_files)),
                       Tail(json_files), text)

\* _find_entity, lines 256-259: the first category a part of whose name is
\* the tag type, or the reverse
RECURSIVE FirstPartial(_, _)
FirstPartial(cats, tag_type) ==
    IF cats = <<>> THEN ""
    ELSE IF \/ IsSubstring(Lower(tag_type), Lower(Head(cats)))
            \/ IsSubstring(Lower(Head(cats)), Lower(tag_type))
    THEN Head(cats)
    ELSE FirstPartial(Tail(cats), tag_type)

\* _find_entity, lines 247-259
FindCategory(ents, tag_type) ==
    IF tag_type \in DOMAIN category_map THEN category_map[tag_type]
    ELSE IF DictHas(ents, tag_type) THEN tag_type
    ELSE FirstPartial(ents.keys, tag_type)

\* the first record of a list with the name
RECURSIVE FirstNamed(_, _)
FirstNamed(list, name) ==
    IF list = <<>> THEN NoEntity
    ELSE IF Lower(Head(list).name) = name THEN Head(list)
    ELSE FirstNamed(Tail(list), name)

\* _find_entity, lines 267-271
RECURSIVE FindInSource(_, _, _, _)
FindInSource(sources, keys, name, source) ==
    IF keys = <<>> THEN NoEntity
    ELSE
      LET hit == IF Lower(Head(keys)) = source
                 THEN FirstNamed(sources.at[Head(keys)], name)
                 ELSE NoEntity
      IN IF hit # NoEntity THEN hit
         ELSE FindInSource(sources, Tail(keys), name, source)

\* _find_entity, lines 274-277
RECURSIVE FindInAll(_, _, _)
FindInAll(sources, keys, name) ==
    IF keys = <<>> THEN NoEntity
    ELSE
      LET hit == FirstNamed(sources.at[Head(keys)], name)
      IN IF hit # NoEntity THEN hit
         ELSE FindInAll(sources, Tail(keys), name)

\* _find_entity taking the first record of the name whatever its source
FindEntityAnySource(ents, tag_type, name, source) ==
    LET category == FindCategory(ents, tag_type)
    IN IF Falsy(category) \/ ~DictHas(ents, category) THEN NoEntity
       ELSE FindInAll(ents.at[category], ents.at[category].keys, name)

\* _find_entity refusing a name that more than one source carries
FindEntityUnique(ents, tag_type, name, source) ==
    LET category == FindCategory(ents, tag_type)
    IN IF Falsy(category) \/ ~DictHas(ents, category) THEN NoEntity
       ELSE IF ~Falsy(source)
       THEN FindInSource(ents.at[category], ents.at[category].keys, name, source)
       ELSE IF Cardinality({ k \in Range(ents.at[category].keys) :
                               FirstNamed(ents.at[category].at[k], name) # NoEntity }) > 1
       THEN NoEntity
       ELSE FindInAll(ents.at[category], ents.at[category].keys, name)

\* _find_entity falling back to the other sources when the requested source
\* does not carry the name
FindEntityFallback(ents, tag_type, name, source) ==
    LET category == FindCategory(ents, tag_type)
    IN IF Falsy(category) \/ ~DictHas(ents, category) THEN NoEntity
       ELSE IF ~Falsy(source)
               /\ FindInSource(ents.at[category], ents.at[category].keys, name, source) # NoEntity
       THEN FindInSource(ents.at[category], ents.at[category].keys, name, source)
       ELSE FindInAll(ents.at[category], ents.at[category].keys, name)

\* LinkChecker._find_entity
_find_entity(ents, tag_type, name, source) ==
    LET category == FindCategory(ents, tag_type)
    IN IF Falsy(category) \/ ~DictHas(ents, category) THEN NoEntity
       ELSE IF ~Falsy(source)
       THEN FindInSource(ents.at[category], ents.at[category].keys, name, source)
       ELSE FindInAll(ents.at[category], ents.at[category].keys, name)

\* the index after the read self.entities[category] of a defaultdict: a
\* category that is missing is created empty
DefaultGet(ents, category) ==
    IF DictHas(ents, category) THEN ents ELSE DictSet(ents, category, DictEmpty)

\* the index after _find_entity without the test `category not in
\* self.entities`
IndexAfterFindUnguarded(ents, tag_type, name, source) ==
    LET category == FindCategory(ents, tag_type)
    IN IF Falsy(category) THEN ents ELSE DefaultGet(ents, category)

\* self.entities after a call of _find_entity: lines 261-262 return before
\* the reads self.entities[category] of lines 267 and 274 can create a
\* category
IndexAfterFind(ents, tag_type, name, source) ==
    LET category == FindCategory(ents, tag_type)
    IN IF Falsy(category) \/ ~DictHas(ents, category) THEN ents
       ELSE DefaultGet(ents, category)

\* _check_string_links, lines 195-197: name and source of a tag; a tag
\* without a source has source None, held as the falsy ""
TagName(match) == Lower(Strip(match.parts[1]))
TagSource(match) == IF Len(match.parts) > 1 THEN Lower(Strip(match.parts[2])) ELSE ""

\* LinkChecker._check_string_links; c holds the fields of the checker and
\* the calls of _find_entity made so far
RECURSIVE _check_string_links(_, _, _)
_check_string_links(c, matches, entity_info) ==
    IF matches = <<>> THEN c
    ELSE
      LET match == Head(matches)
          tag_type == match.kind
          counted == [c EXCEPT !.total_links_checked = @ + 1]
      IN IF tag_type \notin ENTITY_TAGS
         THEN counted    \* return
         ELSE
           LET name == TagName(match)
               source == TagSource(match)
               found == _find_entity(c.entities, tag_type, name, source)
               looked == [counted EXCEPT
                            !.entities = IndexAfterFind(@, tag_type, name, source),
                            !.lookups =
                            Append(@, [tag |-> match, tag_type |-> tag_type,
                                       name |-> name, source |-> source,
                                       found |-> found])]
               recorded ==
                   IF found = NoEntity
                   THEN [looked EXCEPT !.broken_links =
                            Append(@, [tag |-> match, tag_type |-> tag_type,
                                       target_name |-> name, target_source |-> source,
                                       in_entity |-> <<entity_info.name, entity_info.source>>,
                                       in_file |-> entity_info.file,
                                       reason |-> "Entity not found"])]
                   ELSE IF ~Falsy(source) /\ Lower(found.source) # source
                   THEN [looked EXCEPT !.cross_source_links =
                            Append(@, [tag |-> match, tag_type |-> tag_type,
                                       target_name |-> name,
                                       target_requested_source |-> source,
                                       target_actual_source |-> found.source,
                                       in_entity |-> <<entity_info.name, entity_info.source>>,
                                       in_file |-> entity_info.file])]
                   ELSE looked
           IN _check_string_links(recorded, Tail(matches), entity_info)

\* the string leaves that hold tags, met by the walk of _check_entity_links
\* over the values of a record: the strings of its "entries" list
StringLeaves(data) == IF "entries" \in DOMAIN data THEN data.entries ELSE <<>>

RECURSIVE CheckLeaves(_, _, _)
CheckLeaves(c, leaves, entity_info) ==
    IF leaves = <<>> THEN c
    ELSE CheckLeaves(_check_string_links(c, Head(leaves), entity_info),
                     Tail(leaves), entity_info)

\* LinkChecker._check_entity_links
_check_entity_links(c, data, entity_info) ==
    CheckLeaves(c, StringLeaves(data), entity_info)

RECURSIVE Flatten(_)
Flatten(lists) == IF lists = <<>> THEN <<>> ELSE Head(lists) \o Flatten(Tail(lists))

\* the indexed records of a category, source after source
CategoryRecords(sources) == Flatten(DictValues(sources))

\* the indexed records in the order check_links visits them (lines 163-165)
AllIndexed(ents) ==
    Flatten([i \in 1..Len(ents.keys) |-> CategoryRecords(ents.at[ents.keys[i]])])

RECURSIVE CheckRecords(_, _)
CheckRecords(c, records) ==
    IF records = <<>> THEN c
    ELSE CheckRecords(_check_entity_links(c, Head(records).data, Head(records)),
                      Tail(records))

\* LinkChecker.check_links
check_links(c) == CheckRecords(c, AllIndexed(c.entities))

\* LinkChecker.generate_report: the summary of the report
generate_report(c) ==
    [summary |->
        [total_links_checked |-> c.total_links_checked,
         broken_links_count |-> Len(c.broken_links),
         cross_source_links_count |-> Len(c.cross_source_links),
         entities_with_broken_links |->
             Cardinality({ c.broken_links[i].in_entity : i \in 1..Len(c.broken_links) }),
         entities_with_cross_source_links |->
             Cardinality({ c.cross_source_links[i].in_entity :
                              i \in 1..Len(c.cross_source_links) })]]

\* ------------------------------------------------------------------------
\* Specification of the link check: main of check_links.py, run up to
\* MaxRuns times over one corpus.
\* ------------------------------------------------------------------------

\* the tags a text may hold
LinkTags ==
    { [kind |-> "spell", parts |-> <<"Fireball">>],
      [kind |-> "spell", parts |-> <<"fireball", " PHB">>],
      [kind |-> "spell", parts |-> <<"Fireball", "xge">>],
      [kind |-> "spell", parts |-> <<"Shield", "PHB">>],
      [kind |-> "spell", parts |-> <<"shield", "", "a shield">>],
      [kind |-> "creature", parts |-> <<"Goblin">>],
      [kind |-> "skill", parts |-> <<"Stealth">>],
      [kind |-> "b", parts |-> <<"bold">>] }

\* the orders in which a directory listing may give a set of files
Orderings(S) ==
    { o \in [1..Cardinality(S) -> S] : \A i, j \in 1..Cardinality(S) : o[i] = o[j] => i = j }

\* no reorganisation is running
ReorganizeIdle ==
    /\ entities = <<>>
    /\ grouped = DictEmpty
    /\ missing_source = <<>>
    /\ log = <<>>
    /\ deduped = <<>>
    /\ kind = "none"
    /\ corpus = <<>>
    /\ unloadable = {}
    /\ unwritable = {}
    /\ next_file = 1
    /\ out = <<>>
    /\ stats = NewStatistics
    /\ counts = DictEmpty

InitLinks ==
    /\ ReorganizeIdle
    /\ ImageIdle
    /\ pc = "link_start"
    /\ data_dir \in [files : SUBSET LinkFiles, text : SeqsUpTo(LinkTags, MaxTags)]
    /\ checker = <<>>
    /\ auditor = <<>>
    /\ lookups = <<>>
    /\ report = <<>>
    /\ exit_code = -1
    /\ run = 1
    /\ first_report = <<>>

linkEnv == <<entities, grouped, missing_source, log, deduped, partitionVars, imageVars,
             data_dir, auditor>>

\* main, line 350: checker = LinkChecker(args.data_dir)
LinkMainNew ==
    /\ pc = "link_start"
    /\ checker' = LinkChecker(data_dir)
    /\ pc' = "link_new"
    /\ UNCHANGED <<linkEnv, lookups, report, exit_code, run, first_report>>

\* main, line 353: checker.load_all_data()
LinkMainLoad ==
    /\ pc = "link_new"
    /\ \E json_files \in Orderings(data_dir.files) :
          checker' = [checker EXCEPT !.entities =
                         load_all_data(@, json_files, data_dir.text)]
    /\ pc' = "link_loaded"
    /\ UNCHANGED <<linkEnv, lookups, report, exit_code, run, first_report>>

\* main, line 356: checker.check_links()
LinkMainCheck ==
    /\ pc = "link_loaded"
    /\ LET c == check_links(checker @@ [lookups |-> lookups])
       IN /\ checker' = [f \in DOMAIN checker |-> c[f]]
          /\ lookups' = c.lookups
    /\ pc' = "link_checked"
    /\ UNCHANGED <<linkEnv, report, exit_code, run, first_report>>

\* main returning 0 whatever the report says
LinkExitZero(rep) == 0

\* main, line 374: return 1 if report["summary"]["broken_links_count"] > 0 else 0
LinkExitCode(rep) == IF rep.summary.broken_links_count > 0 THEN 1 ELSE 0

\* main, lines 359-374: the report and the exit code
LinkMainReturn ==
    /\ pc = "link_checked"
    /\ report' = generate_report(checker)
    /\ exit_code' = LinkExitCode(report')
    /\ first_report' = IF run = 1 THEN report' ELSE first_report
    /\ pc' = "link_exited"
    /\ UNCHANGED <<linkEnv, checker, lookups, run>>

\* the script is started again over the unchanged corpus
LinkRunAgain ==
    /\ pc = "link_exited"
    /\ run < MaxRuns
    /\ run' = run + 1
    /\ pc' = "link_start"
    /\ lookups' = <<>>
    /\ report' = <<>>
    /\ exit_code' = -1
    /\ UNCHANGED <<linkEnv, checker, first_report>>

NextLinks ==
    \/ LinkMainNew
    \/ LinkMainLoad
    \/ LinkMainCheck
    \/ LinkMainReturn
    \/ LinkRunAgain

SpecLinks == InitLinks /\ [][NextLinks]_vars

\* ------------------------------------------------------------------------
\* Image audit (check_image_paths.py, image_path_utils.validate_source_images)
\* ------------------------------------------------------------------------

\* most image entries in one JSON file
MaxRefs == 2

\* ImagePathAuditor.__init__ keeping the fields of the auditor of the run
\* before
ImagePathAuditorReused(dir, img_dir) ==
    IF auditor # <<>> THEN auditor
    ELSE [stats |-> [sources_scanned |-> 0, json_files_scanned |-> 0,
                     total_image_references |-> 0],
          results |-> [valid |-> <<>>, special_case |-> <<>>, cross_source |-> <<>>,
                       unexpected_location |-> <<>>, missing |-> <<>>]]

\* ImagePathAuditor.__init__
ImagePathAuditor(dir, img_dir) ==
    [stats |-> [sources_scanned |-> 0, json_files_scanned |-> 0,
                total_image_references |-> 0],
     results |-> [valid |-> <<>>, special_case |-> <<>>, cross_source |-> <<>>,
                  unexpected_location |-> <<>>, missing |-> <<>>]]

\* the source directories a corpus may hold
AuditSources == {"PHB", "PS-A", "AitFR-AVT"}

\* the href.path values of the image entries of a file; <<>> is the empty
\* string
AuditPaths ==
    { <<>>,
      <<"001.webp">>,
      <<"book", "PHB", "001.webp">>,
      <<"book", "PSA", "001.webp">>,
      <<"book", "AitFR", "AVT", "001.webp">> }

\* the states of the image tree an audit may meet
AuditDisks == SUBSET { <<"book", "PHB", "001.webp">>, <<"book", "PSA", "001.webp">> }

\* the JSON file of a source directory
SourceFile == "spells.json"

\* image_path_utils.find_image_references: data is held as the href.path
\* values of its image entries in document order
RECURSIVE find_image_references(_, _, _)
find_image_references(data, source, filename) ==
    IF data = <<>> THEN <<>>
    ELSE
      LET path == Head(data)
          rest == find_image_references(Tail(data), source, filename)
      IN IF path # <<>>    \* isinstance(path, str) and path
         THEN <<[source |-> source, file |-> filename, path |-> path]>> \o rest
         ELSE rest

\* the corpora an audit may meet: the source directories, the image
\* entries of their JSON file, and the source directories whose JSON file
\* cannot be read or parsed (at most one)
AuditCorpora ==
    { c \in [sources : SUBSET AuditSources, paths : SeqsUpTo(AuditPaths, MaxRefs),
             unreadable : {{}, {"PHB"}, {"PS-A"}}] :
        c.unreadable \subseteq c.sources }

\* validate_source_images, lines 428-429: log.error for a file that could
\* not be processed
ValidateSourceLog(source_id, dir) ==
    IF source_id \in dir.sources /\ source_id \in dir.unreadable
    THEN << <<"Error processing", source_id, SourceFile>> >>
    ELSE <<>>

\* image_path_utils.validate_source_images; every source directory holds
\* one JSON file with the image entries of the corpus
validate_source_images(source_id, dir) ==
    IF source_id \notin dir.sources THEN <<>>
    ELSE IF source_id \in dir.unreadable THEN <<>>
    ELSE
      LET refs == find_image_references(dir.paths, source_id, SourceFile)
      IN [i \in 1..Len(refs) |->
             validate_image_reference(refs[i]) @@ [image_ref |-> refs[i]]]

\* run_full_audit, lines 110-127: the validations of the sources in the
\* order of the directory listing
RECURSIVE AuditSourceDirs(_, _, _)
AuditSourceDirs(a, source_dirs, dir) ==
    IF source_dirs = <<>> THEN [auditor |-> a, all_validations |-> <<>>]
    ELSE
      LET validations == validate_source_images(Head(source_dirs), dir)
          scanned == [a EXCEPT !.stats.sources_scanned = @ + 1]
          later == AuditSourceDirs(scanned, Tail(source_dirs), dir)
      IN [auditor |-> later.auditor,
          all_validations |-> validations \o later.all_validations]

\* what run_full_audit has logged as errors for the sources, in the order
\* of the directory listing
RECURSIVE AuditLog(_, _)
AuditLog(source_dirs, dir) ==
    IF source_dirs = <<>> THEN <<>>
    ELSE ValidateSourceLog(Head(source_dirs), dir) \o AuditLog(Tail(source_dirs), dir)

\* run_full_audit, lines 132-134: results[validation.status].append(...)
RECURSIVE Categorize(_, _)
Categorize(results, validations) ==
    IF validations = <<>> THEN results
    ELSE
      LET v == Head(validations)
      IN Categorize(IF v.status \in DOMAIN results
                    THEN [results EXCEPT ![v.status] = Append(@, v)]
                    ELSE results,
                    Tail(validations))

\* ImagePathAuditor._generate_report (without the timestamp and the texts of
\* the recommendations)
GenerateReport(a) ==
    [scan_summary |-> a.stats,
     issues |-> [missing_images |-> a.results.missing,
                 unexpected_locations |-> a.results.unexpected_location,
                 cross_source_references |-> a.results.cross_source,
                 special_cases |-> a.results.special_case],
     summary |-> [critical_issues |-> Len(a.results.missing),
                  warning_issues |-> Len(a.results.unexpected_location),
                  info_issues |-> Len(a.results.valid) + Len(a.results.special_case)
                                     + Len(a.results.cross_source),
                  special_design_decisions |-> Len(a.results.special_case)]]

\* ImagePathAuditor.run_full_audit with sources = None
run_full_audit(a, source_dirs, dir) ==
    LET audited == AuditSourceDirs(a, source_dirs, dir)
        all_validations == audited.all_validations
        counted == [audited.auditor EXCEPT
                       !.stats.total_image_references = Len(all_validations)]
        categorized == [counted EXCEPT !.results = Categorize(@, all_validations)]
        done == [categorized EXCEPT !.stats.json_files_scanned =
                    Cardinality({ all_validations[i].image_ref.file :
                                     i \in 1..Len(all_validations) })]
    IN [auditor |-> done, report |-> GenerateReport(done)]

\* main of check_image_paths.py, lines 335-338
AuditExitCode(rep) == IF rep.summary.critical_issues > 0 THEN 1 ELSE 0

InitAudit ==
    /\ ReorganizeIdle
    /\ pc = "audit_start"
    /\ ref = [source |-> "", path |-> <<>>]
    /\ validation = <<>>
    /\ references = <<>>
    /\ disk \in AuditDisks
    /\ data_dir \in AuditCorpora
    /\ checker = <<>>
    /\ auditor = <<>>
    /\ lookups = <<>>
    /\ report = <<>>
    /\ exit_code = -1
    /\ run = 1
    /\ first_report = <<>>

auditEnv == <<entities, grouped, missing_source, log, deduped, partitionVars, imageVars,
              data_dir, checker, lookups>>

\* main, line 317: auditor = ImagePathAuditor(args.data_dir, args.img_dir, log)
AuditMainNew ==
    /\ pc = "audit_start"
    /\ auditor' = ImagePathAuditor(data_dir, disk)
    /\ pc' = "audit_new"
    /\ UNCHANGED <<auditEnv, report, exit_code, run, first_report>>

\* main, lines 320-323: report = auditor.run_full_audit(...)
AuditMainRun ==
    /\ pc = "audit_new"
    /\ \E source_dirs \in Orderings(data_dir.sources) :
          LET r == run_full_audit(auditor, source_dirs, data_dir)
          IN /\ auditor' = r.auditor
             /\ report' = r.report
             /\ log' = log \o AuditLog(source_dirs, data_dir)
    /\ pc' = "audit_done"
    /\ UNCHANGED <<entities, grouped, missing_source, deduped, partitionVars, imageVars,
                   data_dir, checker, lookups, exit_code, run, first_report>>

\* main, lines 335-338: the exit code
AuditMainReturn ==
    /\ pc = "audit_done"
    /\ exit_code' = AuditExitCode(report)
    /\ first_report' = IF run = 1 THEN report ELSE first_report
    /\ pc' = "audit_exited"
    /\ UNCHANGED <<auditEnv, auditor, report, run>>

\* the script is started again over the unchanged corpus and image tree
AuditRunAgain ==
    /\ pc = "audit_exited"
    /\ run < MaxRuns
    /\ run' = run + 1
    /\ pc' = "audit_start"
    /\ report' = <<>>
    /\ exit_code' = -1
    /\ UNCHANGED <<auditEnv, auditor, first_report>>

NextAudit ==
    \/ AuditMainNew
    \/ AuditMainRun
    \/ AuditMainReturn
    \/ AuditRunAgain

\* the two validation scripts, each run over its corpus
InitRuns == InitLinks \/ InitAudit

NextRuns == NextLinks \/ NextAudit

SpecRuns == InitRuns /\ [][NextRuns]_vars

\* ------------------------------------------------------------------------
\* The reference check of the image copier (image_copier.py,
\* utils.find_image_references)
\* ------------------------------------------------------------------------

\* source directories of a reorganized corpus
CopierSources == {"MM", "PHB"}

\* the href.path values of the internal image entries of a file; <<>> is
\* the empty string
CopierPaths ==
    { <<>>,
      <<"Goblin.webp">>,
      <<"bestiary", "MM", "Goblin.webp">>,
      <<"bestiary", "PHB", "Goblin.webp">> }

\* the states of the image tree the check may meet
CopierDisks == SUBSET { <<"bestiary", "MM", "Goblin.webp">> }

\* path.split("/")[0]: the text before the first "/", "" for the empty
\* string
FirstPart(path) == IF path = <<>> THEN "" ELSE path[1]

\* utils.find_image_references: data is held as the href.path values of
\* its internal image entries in document order
RECURSIVE utils_find_image_references(_, _)
utils_find_image_references(data, source_id) ==
    IF data = <<>> THEN <<>>
    ELSE
      LET path == Head(data)
          image_source == FirstPart(path)
      IN << [path |-> path,
             type |-> "internal",
             is_cross_source |-> (image_source # "" /\ image_source # source_id),
             image_source |-> image_source] >>
         \o utils_find_image_references(Tail(data), source_id)

\* check_image_references_in_reorganized_data, lines 236-251: the
\* references of one file; r = [errors, found, cross_source]
RECURSIVE CheckReferences(_, _, _)
CheckReferences(r, refs, source_id) ==
    IF refs = <<>> THEN r
    ELSE
      LET rf == Head(refs)
          r1 == IF rf.path = <<>> \/ Exists(rf.path) THEN r
                ELSE [r EXCEPT !.errors = Append(@, <<"Image not found", rf.path, source_id>>)]
          r2 == IF rf.is_cross_source
                THEN [r1 EXCEPT !.cross_source =
                        Append(@, [entity_source |-> source_id,
                                   image_path |-> rf.path,
                                   image_source |-> rf.image_source])]
                ELSE r1
          r3 == [r2 EXCEPT !.found = Append(@, rf @@ [source_id |-> source_id])]
      IN CheckReferences(r3, Tail(refs), source_id)

\* check_image_references_in_reorganized_data, lines 218-251: the loop
\* over the JSON files, one per source directory
RECURSIVE CheckFiles(_, _, _)
CheckFiles(r, source_dirs, dir) ==
    IF source_dirs = <<>> THEN r
    ELSE
      LET source_id == Head(source_dirs)
          after ==
            IF source_id \in dir.unreadable THEN r   \* `if not data: continue`
            ELSE CheckReferences(r, utils_find_image_references(dir.paths, source_id),
                                 source_id)
      IN CheckFiles(after, Tail(source_dirs), dir)

\* image_copier.check_image_references_in_reorganized_data
check_image_references_in_reorganized_data(st, source_dirs, dir) ==
    CheckFiles([errors |-> st.errors, found |-> <<>>, cross_source |-> <<>>],
               source_dirs, dir)

InitCopier ==
    /\ ReorganizeIdle
    /\ pc = "refs_start"
    /\ ref = [source |-> "", path |-> <<>>]
    /\ validation = <<>>
    /\ references = <<>>
    /\ disk \in CopierDisks
    /\ data_dir \in { c \in [sources : SUBSET CopierSources,
                              paths : SeqsUpTo(CopierPaths, MaxRefs),
                              unreadable : {{}, {"PHB"}}] :
                        c.unreadable \subseteq c.sources }
    /\ checker = <<>>
    /\ auditor = <<>>
    /\ lookups = <<>>
    /\ report = <<>>
    /\ exit_code = -1
    /\ run = 0
    /\ first_report = <<>>

\* one call of check_image_references_in_reorganized_data
CheckImageReferences ==
    /\ pc = "refs_start"
    /\ \E source_dirs \in Orderings(data_dir.sources) :
          LET r == check_image_references_in_reorganized_data(stats, source_dirs, data_dir)
          IN /\ references' = [found |-> r.found, cross_source |-> r.cross_source]
             /\ stats' = [stats EXCEPT !.errors = r.errors]
    /\ pc' = "refs_checked"
    /\ UNCHANGED <<entities, grouped, missing_source, log, deduped,
                   kind, corpus, unloadable, unwritable, next_file, out, counts,
                   ref, disk, validation, auditVars>>

NextCopier == CheckImageReferences

SpecCopier == InitCopier /\ [][NextCopier]_vars

\* ------------------------------------------------------------------------
\* Source purity check (check_source_purity.py)
\*
\* A record of a partitioned file is held with its fields in file order:
\* name, source (absent for null or missing), entries, otherSources.  The
\* dicts of the two list fields carry a source and no list of their own.
\* ------------------------------------------------------------------------

\* most records in one file of the partitioned corpus
MaxPurityRecords == 2

\* source directories of the partitioned corpus
PurityDirs == {"PHB", "XGE"}

\* a field that may be absent
Opt(field, present, value) ==
    IF present THEN [f \in {field} |-> value] ELSE <<>>

\* the dicts a list field may hold
NestedLists == { << [source |-> s] >> : s \in PurityDirs }

PurityRecords ==
    { [name |-> "Fireball"] @@ Opt("source", s # "", s)
                            @@ Opt("entries", e # <<>>, e)
                            @@ Opt("otherSources", o # <<>>, o) :
        s \in {""} \cup PurityDirs,
        e \in {<<>>, << [source |-> "XGE"] >>},
        o \in {<<>>} \cup NestedLists }

\* the list fields of a dict that check_entities_recursive descends into,
\* in file order (line 58 leaves out "entries")
DescendedKeys(entity) ==
    SelectSeq(<<"entries", "otherSources">>,
              LAMBDA key : key \in DOMAIN entity
                           /\ key \notin {"entries", "additionalEntites", "additionalEntities"})

RECURSIVE check_entities_recursive(_, _, _, _)
RECURSIVE CheckLists(_, _, _, _, _)

\* check_entities_recursive, lines 57-60: the loop over the list fields of
\* one dict
CheckLists(entity, keys, expected_source, json_file, path) ==
    IF keys = <<>> THEN <<>>
    ELSE check_entities_recursive(entity[Head(keys)], expected_source, json_file,
                                  path \o <<Head(keys)>>)
         \o CheckLists(entity, Tail(keys), expected_source, json_file, path)

\* check_source_purity.check_entities_recursive; path is held as the
\* sequence of its "."-separated keys
check_entities_recursive(ents, expected_source, json_file, path) ==
    IF ents = <<>> THEN <<>>
    ELSE
      LET entity == Head(ents)
          own == IF "source" \in DOMAIN entity /\ entity.source # expected_source
                 THEN << [file |-> json_file, path |-> path,
                          entity_name |-> (IF "name" \in DOMAIN entity
                                           THEN entity.name ELSE "Unknown"),
                          expected_source |-> expected_source,
                          actual_source |-> entity.source] >>
                 ELSE <<>>
          below == CheckLists(entity, DescendedKeys(entity), expected_source,
                               json_file, path)
      IN own \o below
         \o check_entities_recursive(Tail(ents), expected_source, json_file, path)

\* check_source_purity.check_file_source_purity for a file that parses:
\* its one top-level array is "spell"
check_file_source_purity(json_file, expected_source) ==
    check_entities_recursive(data_dir.records, expected_source, json_file, <<"spell">>)

\* check_source_purity, lines 119-136: the loop over the sorted source
\* directories, each holding the one data file
RECURSIVE PurityDirsLoop(_)
PurityDirsLoop(source_dirs) ==
    IF source_dirs = <<>> THEN [all_errors |-> <<>>, checked_files |-> 0]
    ELSE
      LET source_id == Head(source_dirs)
          errors == check_file_source_purity(<<source_id, "spells.json">>, source_id)
          later == PurityDirsLoop(Tail(source_dirs))
      IN [all_errors |-> errors \o later.all_errors,
          checked_files |-> later.checked_files + 1]

\* sorted(data_rework_dir.iterdir())
SortedDirs(dirs) ==
    SelectSeq(<<"PHB", "XGE">>, LAMBDA source_id : source_id \in dirs)

\* check_source_purity.check_source_purity (the directory exists)
check_source_purity(dir) ==
    LET r == PurityDirsLoop(SortedDirs(dir.sources))
    IN [script |-> "check_source_purity.py",
        status |-> IF r.all_errors = <<>> THEN "OK" ELSE "ERROR",
        summary |-> [checked_files |-> r.checked_files,
                     total_errors |-> Len(r.all_errors)],
        errors |-> r.all_errors]

InitPurity ==
    /\ ReorganizeIdle
    /\ ImageIdle
    /\ pc = "purity_start"
    /\ data_dir \in [sources : SUBSET PurityDirs,
                      records : SeqsUpTo(PurityRecords, MaxPurityRecords)]
    /\ checker = <<>>
    /\ auditor = <<>>
    /\ lookups = <<>>
    /\ report = <<>>
    /\ exit_code = -1
    /\ run = 0
    /\ first_report = <<>>

purityEnv == <<entities, grouped, missing_source, log, deduped, partitionVars, imageVars,
               data_dir, checker, auditor, lookups, run, first_report>>

\* main, line 179: report = check_source_purity(args.data_dir)
PurityMainCheck ==
    /\ pc = "purity_start"
    /\ report' = check_source_purity(data_dir)
    /\ pc' = "purity_checked"
    /\ UNCHANGED <<purityEnv, exit_code>>

\* main, line 229: sys.exit(0 if report["status"] == "OK" else 1)
PurityMainExit ==
    /\ pc = "purity_checked"
    /\ exit_code' = IF report.status = "OK" THEN 0 ELSE 1
    /\ pc' = "purity_exited"
    /\ UNCHANGED <<purityEnv, report>>

NextPurity == PurityMainCheck \/ PurityMainExit

SpecPurity == InitPurity /\ [][NextPurity]_vars

\* ------------------------------------------------------------------------
\* Properties of group_entities_by_source and deduplicate_entities
\* ------------------------------------------------------------------------

\* the entity carries a usable (present, non-empty) source
HasSource(e) == "source" \in DOMAIN e /\ e.source # ""

\* the entity carries a page attribute
HasPage(e) == "page" \in DOMAIN e

\* the entity is keyed by deduplicate_entities
HasKey(e) == "name" \in DOMAIN e /\ e.name # "" /\ HasSource(e)

KeyOf(e) == <<e.name, e.source>>

NoDuplicates(s) == \A i, j \in 1..Len(s) : s[i] = s[j] => i = j

\* C1 (source purity): in the mapping returned by group_entities_by_source
\* every record stored under key S has source = S, no key occurs twice, and
\* every input record with a non-empty source is stored under its own
\* source and under no other key.
C1_SourcePurity ==
    pc = "grouped" =>
        /\ NoDuplicates(grouped.keys)
        /\ \A S \in Range(grouped.keys) :
              \A j \in 1..Len(grouped.at[S]) :
                  /\ "source" \in DOMAIN grouped.at[S][j]
                  /\ grouped.at[S][j].source = S
        /\ \A i \in 1..Len(entities) :
              HasSource(entities[i]) =>
                  /\ DictHas(grouped, entities[i].source)
                  /\ \A S \in Range(grouped.keys) :
                        entities[i] \in Range(grouped.at[S]) <=> S = entities[i].source

\* two sources have been partitioned next to a record without a source
C1_Witness ==
    /\ pc = "grouped"
    /\ Len(entities) = 3
    /\ Len(grouped.keys) = 2
    /\ \E i \in 1..Len(entities) : ~HasSource(entities[i])

\* C2 (quarantine): a record lacking a source field (or carrying an empty
\* one) is in no partition returned by group_entities_by_source, and the
\* quarantine list missing_source holds exactly one entry per such record,
\* "<entity_type>: <name>", in input order; a warning is logged for them;
\* and no file written by a processor holds a record without a source.
C2_Quarantine ==
    /\ pc = "grouped" =>
        LET lacking == SelectSeq(entities, LAMBDA e : ~HasSource(e)) IN
        /\ \A i \in 1..Len(entities) :
              ~HasSource(entities[i]) =>
                  \A S \in Range(grouped.keys) : entities[i] \notin Range(grouped.at[S])
        /\ Len(missing_source) = Len(lacking)
        /\ \A j \in 1..Len(lacking) :
              missing_source[j] = <<EntityType, NameOrUnknown(lacking[j])>>
        /\ (lacking # <<>> =>
               log = << <<"entities without source field", EntityType, Len(lacking)>> >>)
    /\ \A path \in DOMAIN out :
          \A k \in DOMAIN out[path] \ {"_meta"} :
              \A i \in 1..Len(out[path][k]) : HasSource(out[path][k][i])

\* a record without any source field was grouped together with a record
\* that has one
C2_Witness ==
    /\ pc = "grouped"
    /\ \E i \in 1..Len(entities) : "source" \notin DOMAIN entities[i]
    /\ Len(missing_source) = 1
    /\ Len(grouped.keys) >= 1

\* C3 (stable, lossless grouping): the keys returned are exactly the
\* non-empty sources of the input, and the sequence returned for S is the
\* subsequence of the input whose source is S, in input order, duplicates
\* included.
C3_GroupingStable ==
    pc = "grouped" =>
        /\ Range(grouped.keys) =
              { entities[i].source : i \in { k \in 1..Len(entities) : HasSource(entities[k]) } }
        /\ \A S \in Range(grouped.keys) :
              grouped.at[S] = SelectSeq(entities, LAMBDA e : HasSource(e) /\ e.source = S)

\* two records with the same name and source, separated in the input by a
\* record of another source, are both kept
C3_Witness ==
    /\ pc = "grouped"
    /\ Len(entities) = 3
    /\ HasKey(entities[1]) /\ HasKey(entities[2]) /\ HasKey(entities[3])
    /\ KeyOf(entities[1]) = KeyOf(entities[3])
    /\ entities[1] # entities[3]
    /\ entities[2].source # entities[1].source
    /\ grouped.at[entities[1].source] = <<entities[1], entities[3]>>

\* C4 (dedup law): when exactly two records of the input share a key
\* (name, source), one carrying a page and one lacking it, the record kept
\* for that key is the one with the page, whichever comes first.
C4_DedupPageWins ==
    pc = "deduped" =>
        \A i, j \in 1..Len(entities) :
            ( /\ i # j
              /\ HasKey(entities[i]) /\ HasKey(entities[j])
              /\ KeyOf(entities[i]) = KeyOf(entities[j])
              /\ HasPage(entities[i]) /\ ~HasPage(entities[j])
              /\ \A k \in 1..Len(entities) :
                    (HasKey(entities[k]) /\ KeyOf(entities[k]) = KeyOf(entities[i]))
                        => k \in {i, j} )
            => /\ entities[i] \in Range(deduped)
               /\ entities[j] \notin Range(deduped)

\* the record lacking the page came first and was replaced
C4_Witness ==
    /\ pc = "deduped"
    /\ Len(entities) = 2
    /\ HasKey(entities[1]) /\ HasKey(entities[2])
    /\ KeyOf(entities[1]) = KeyOf(entities[2])
    /\ ~HasPage(entities[1]) /\ HasPage(entities[2])
    /\ deduped = <<entities[2]>>

\* C5 (dedup tie-break, as claimed): when every input record of a key
\* carries a page, the record kept for the key carries the largest of those
\* pages, whatever the input order.
C5_DedupLargestPage ==
    pc = "deduped" =>
        \A i \in 1..Len(entities) :
            LET e == entities[i]
                same == { k \in 1..Len(entities) :
                            HasKey(entities[k]) /\ KeyOf(entities[k]) = KeyOf(e) }
            IN (HasKey(e) /\ \A k \in same : HasPage(entities[k])) =>
                  \E d \in Range(deduped) :
                      /\ KeyOf(d) = KeyOf(e)
                      /\ HasPage(d)
                      /\ \A k \in same : d.page >= entities[k].page

\* ------------------------------------------------------------------------
\* Properties of the JSON processors
\* ------------------------------------------------------------------------

\* the records stored under the j-th key in the loadable files f, f+1, ...
RECURSIVE ConcatLoadable(_, _)
ConcatLoadable(j, f) ==
    IF f > NumFiles THEN <<>>
    ELSE (IF f \in unloadable THEN <<>> ELSE FileArray(f, j)) \o ConcatLoadable(j, f + 1)

\* the entity arrays a processor has grouped so far, each with the name of
\* the output file its groups go to
ProcessedArrays ==
    CASE kind = "main" ->
           { [file |-> FileName(kind, f), key |-> FileKeys(kind)[j], arr |-> FileArray(f, j)] :
               f \in { x \in 1..NumFiles : x < next_file /\ x \notin unloadable },
               j \in 1..2 }
      [] kind = "fluff" ->
           IF pc \notin {"done", "returned"} THEN {}
           ELSE { [file |-> FileName(kind, f), key |-> FileKeys(kind)[j],
                   arr |-> FileArray(f, j)] :
                    f \in { x \in 1..NumFiles : x \notin unloadable }, j \in 1..2 }
      [] kind = "bestiary" ->
           IF pc = "all_bestiary" THEN {}
           ELSE { [file |-> BestiaryJson, key |-> "monster", arr |-> ConcatLoadable(1, 1)] }
      [] kind = "class" ->
           IF pc = "all_class" THEN {}
           ELSE { [file |-> ClassesJson, key |-> FileKeys(kind)[j],
                   arr |-> ConcatLoadable(j, 1)] : j \in 1..2 }
      [] OTHER -> {}

OfSource(arr, S) == SelectSeq(arr, LAMBDA e : HasSource(e) /\ e.source = S)

\* C6 (unknown source is not fatal): once a processor (process_json_file,
\* process_bestiary_files, process_class_files, process_fluff_files) has
\* handled an entity array, (a) no output file exists under a source that
\* is not in the known source list, (b) a warning naming each such source
\* of the array has been logged (process_json_file also adds it to the
\* statistics), and (c) every known source of the array whose directory is
\* writable has its output file, holding under the key of an array of the
\* same input all and only that source's records of the array.
C6_UnknownSourceSkipped ==
    \A a \in ProcessedArrays :
        \A i \in 1..Len(a.arr) :
            LET S == a.arr[i].source IN
            HasSource(a.arr[i]) =>
                IF S \notin KnownSources
                THEN /\ \A path \in DOMAIN out : path[1] # S
                     /\ \E w \in Range(log) : w[1] = "Unknown source" /\ w[2] = S
                     /\ kind = "main" =>
                           \E w \in Range(stats.warnings) :
                               w = <<"Unknown source", S, a.file>>
                ELSE S \notin unwritable =>
                     /\ <<S, a.file>> \in DOMAIN out
                     /\ \E b \in ProcessedArrays :
                           /\ b.file = a.file
                           /\ OfSource(b.arr, S) # <<>>
                           /\ b.key \in DOMAIN out[<<S, a.file>>]
                           /\ Range(OfSource(b.arr, S)) \subseteq Range(out[<<S, a.file>>][b.key])
                           /\ \A e \in Range(out[<<S, a.file>>][b.key]) :
                                 HasSource(e) /\ e.source = S

\* process_json_file met a group of an unknown source first and wrote the
\* partition of a known source after it
C6_Witness ==
    /\ kind = "main"
    /\ next_file > 1
    /\ 1 \notin unloadable
    /\ Len(FileArray(1, 1)) = 2
    /\ FileArray(1, 1)[1] = [name |-> "Fireball", source |-> "Homebrew"]
    /\ FileArray(1, 1)[2] = [name |-> "Fireball", source |-> "PHB"]
    /\ <<"PHB", FileName(kind, 1)>> \in DOMAIN out
    /\ Len(stats.warnings) = 1

\* ------------------------------------------------------------------------
\* Properties of the image path functions
\* ------------------------------------------------------------------------

Validated == pc = "validated"

\* the path component the override table gives a source
NormalizedComponent(S) ==
    IF \E k \in DOMAIN IMAGE_PATH_SPECIAL_MAPPINGS : k = S
    THEN IMAGE_PATH_SPECIAL_MAPPINGS[S]
    ELSE S

\* the asset path has the shape category/pathSource/...rest
Shaped(P) == Len(P) >= 2

\* the source component embedded in an asset path
EmbeddedSource(P) == P[2]

\* C7: normalize_source_for_image_path(s) is s for every source identifier
\* s that is not a key of IMAGE_PATH_SPECIAL_MAPPINGS, and the value of the
\* table for every s that is a key.
C7_NormalizeByTable ==
    Validated =>
        /\ ref.source \notin DOMAIN IMAGE_PATH_SPECIAL_MAPPINGS
              => validation.normalized = ref.source
        /\ \A k \in DOMAIN IMAGE_PATH_SPECIAL_MAPPINGS :
              ref.source = k => validation.normalized = IMAGE_PATH_SPECIAL_MAPPINGS[k]

\* a key of the table has been normalized to a value that differs from it
C7_Witness ==
    /\ Validated
    /\ ref.source = "MCV1SC"
    /\ validation.normalized = "MCV/1SC"

\* C8: for an asset path P = category/pathSource/...rest,
\* get_expected_image_path(S, P) is none when the source component embedded
\* in P differs from the normalized path component of S, and is img_dir/P
\* when the two are equal.
C8_ExpectedOwnPartition ==
    (Validated /\ Shaped(ref.path)) =>
        IF EmbeddedSource(ref.path) # NormalizedComponent(ref.source)
        THEN validation.expected_path = NoPath
        ELSE validation.expected_path = ref.path

\* an abbreviated source whose asset path uses the abbreviation: the
\* expected location is the path itself
C8_Witness ==
    /\ Validated
    /\ ref = [source |-> "PS-A", path |-> <<"book", "PSA", "001.webp">>]
    /\ validation.expected_path = <<"book", "PSA", "001.webp">>

\* the locations get_actual_image_path is to probe, in order
Probes(S, P) ==
    LET rest == SubSeq(P, 3, Len(P))
    IN <<P, <<P[1]>> \o SplitSlash(NormalizedComponent(S)) \o rest>>
       \o (IF S = "HAT-TG" THEN << <<P[1], "TG">> \o rest >> ELSE <<>>)

\* the first location of a list that exists on disk, none if there is none
RECURSIVE FirstExisting(_)
FirstExisting(locations) ==
    IF locations = <<>> THEN NoPath
    ELSE IF Exists(Head(locations)) THEN Head(locations)
    ELSE FirstExisting(Tail(locations))

EmbedsNormalized(S, P) ==
    LET n == SplitSlash(NormalizedComponent(S))
    IN /\ Len(P) >= 1 + Len(n)
       /\ SubSeq(P, 2, 1 + Len(n)) = n

\* C10: for every source S of the override table, abbreviated and base/sub
\* entries alike, an asset path whose embedded source component equals the
\* normalized value of S and whose file exists on disk is classified
\* special_case with severity info.
C10_SpecialCase ==
    (/\ Validated
     /\ ref.source \in DOMAIN IMAGE_PATH_SPECIAL_MAPPINGS
     /\ EmbedsNormalized(ref.source, ref.path)
     /\ ref.path \in disk)
        => /\ validation.result.status = "special_case"
           /\ validation.result.severity = "info"

\* ------------------------------------------------------------------------
\* Properties of validate_image_reference
\* ------------------------------------------------------------------------

\* the asset path names, after its category, the normalized component of
\* the referencing source: the path belongs to the source's own partition
OwnPartition(S, P) == Shaped(P) /\ EmbeddedSource(P) = NormalizedComponent(S)

\* the location at which some file of the asset is found, none if there is
\* none at the given path or at a normalized alternate
Found(S, P) == FirstExisting(Probes(S, P))

\* the reference meets the conditions of the special case
IsSpecialCase(S, P) ==
    /\ S \in DOMAIN IMAGE_PATH_SPECIAL_MAPPINGS
    /\ OwnPartition(S, P)
    /\ Found(S, P) # NoPath

\* C11: an asset reference whose path embeds a source component other than
\* the normalized component of the referencing source is classified
\* cross_source with severity info whether or not the file it names
\* exists; it is never missing or critical.
C11_CrossSource ==
    (/\ Validated
     /\ Shaped(ref.path)
     /\ EmbeddedSource(ref.path) # NormalizedComponent(ref.source))
        => /\ validation.expected_path = NoPath
           /\ validation.result.status = "cross_source"
           /\ validation.result.severity = "info"

\* a reference from PS-A into the partition of PHB, whose file is present
C11_Witness ==
    /\ Validated
    /\ ref = [source |-> "PS-A", path |-> <<"book", "PHB", "001.webp">>]
    /\ ref.path \in disk
    /\ validation.result.status = "cross_source"

OutcomeClasses ==
    {"valid", "special_case", "cross_source", "unexpected_location", "missing"}

\* C14: an asset path of fewer than two "/"-delimited segments resolves to
\* a "cannot determine" outcome of its own, reported under none of the
\* ordinary outcome classes, in particular not as cross_source.
C14_MalformedDistinct ==
    (Validated /\ Len(ref.path) < 2)
        => validation.result.status \notin OutcomeClasses

\* the severity that goes with an outcome class
SeverityOf(class) ==
    CASE class = "missing" -> "critical"
      [] class = "unexpected_location" -> "warning"
      [] OTHER -> "info"

LinksChecked == pc \in {"link_checked", "link_exited"}

\* the records indexed under a category, in insertion order
IndexedIn(category) ==
    IF DictHas(checker.entities, category)
    THEN CategoryRecords(checker.entities.at[category])
    ELSE <<>>

\* the category in which a tag kind is looked up
CategoryOfKind(tag_kind) ==
    IF tag_kind \in DOMAIN category_map THEN category_map[tag_kind] ELSE tag_kind

\* two strings are equal but for the case of their letters
SameIgnoringCase(a, b) == Lower(a) = Lower(b)

\* the positions of a list that satisfy a test
Positions(list, Test(_)) == { i \in 1..Len(list) : Test(list[i]) }

\* C16: every tag of a recognized kind in a string leaf is looked up and
\* classified, a tag of an unrecognized kind is skipped, and an
\* unrecognized tag earlier in the string does not keep a later recognized
\* tag of the string from being checked.
C16_TagScanComplete ==
    LinksChecked =>
        \A r \in Range(AllIndexed(checker.entities)) :
            \A leaf \in Range(StringLeaves(r.data)) :
                \A i \in 1..Len(leaf) :
                    leaf[i].kind \in ENTITY_TAGS =>
                        \E l \in Range(lookups) :
                            /\ l.tag = leaf[i]
                            /\ l.found = NoEntity
                                  => \E b \in Range(checker.broken_links) : b.tag = leaf[i]

\* C17: a lookup with an explicit source returns a record of the mapped
\* category whose name is the requested name and whose source is the
\* requested source, both but for case, when such a record is indexed, and
\* none otherwise; it never returns a record of another source.
C17_LookupWithSource ==
    LinksChecked =>
        \A l \in Range(lookups) :
            (l.source # "" /\ l.tag_type \in DOMAIN category_map) =>
                LET wanted(r) == /\ SameIgnoringCase(r.name, l.name)
                                 /\ SameIgnoringCase(r.source, l.source)
                    records == IndexedIn(category_map[l.tag_type])
                IN IF \E r \in Range(records) : wanted(r)
                   THEN l.found \in Range(records) /\ wanted(l.found)
                   ELSE l.found = NoEntity

\* Fireball is indexed under XGE before PHB, and the tag that names the
\* PHB has been resolved to the record of the PHB
C17_Witness ==
    /\ LinksChecked
    /\ DictHas(checker.entities, "spell")
    /\ checker.entities.at["spell"].keys = <<"XGE", "PHB">>
    /\ \E l \in Range(lookups) :
          /\ l.tag = [kind |-> "spell", parts |-> <<"fireball", " PHB">>]
          /\ l.source = "phb"
          /\ l.found # NoEntity
          /\ l.found.source = "PHB"

C19_ExitCode ==
    /\ pc = "link_exited" =>
          IF checker.broken_links # <<>> THEN exit_code # 0 ELSE exit_code = 0
    /\ pc = "audit_exited" =>
          IF auditor.results.missing # <<>> THEN exit_code # 0 ELSE exit_code = 0

\* the link check has ended with one broken link and a non-zero exit code
C19_Witness ==
    /\ pc = "link_exited"
    /\ Len(checker.broken_links) = 1
    /\ checker.broken_links[1].tag = [kind |-> "spell", parts |-> <<"Shield", "PHB">>]
    /\ exit_code = 1

\* the outcome tallies of a report of the link check
LinkTallies(rep) == rep.summary

\* the outcome tallies of a report of the image audit: the counts per
\* class, the references and the sources scanned
AuditTallies(rep) ==
    [missing |-> rep.summary.critical_issues,
     unexpected_location |-> rep.summary.warning_issues,
     special_case |-> Len(rep.issues.special_cases),
     cross_source |-> Len(rep.issues.cross_source_references),
     valid |-> rep.summary.info_issues - Len(rep.issues.special_cases)
                  - Len(rep.issues.cross_source_references),
     total_image_references |-> rep.scan_summary.total_image_references,
     sources_scanned |-> rep.scan_summary.sources_scanned,
     json_files_scanned |-> rep.scan_summary.json_files_scanned]

InitImageAudit == InitImage \/ InitAudit

NextImageAudit == NextImage \/ NextAudit

SpecImageAudit == InitImageAudit /\ [][NextImageAudit]_vars

C25_BuildThenQuery ==
    [][/\ pc = "link_loaded" => checker'.entities = checker.entities
       /\ (lookups' # lookups /\ lookups' # <<>>) => pc = "link_loaded"
       /\ pc = "link_new" => lookups = <<>>]_vars

\* check_links has looked up a creature while no category of monsters is
\* indexed, and the index still has no such category
C25_Witness ==
    /\ LinksChecked
    /\ \E l \in Range(lookups) : l.tag_type = "creature" /\ l.found = NoEntity
    /\ checker.entities.keys = <<"spell">>

\* C27: a tag that names an explicit source is resolved to a record of
\* that source, case ignored, or recorded as broken; it is never recorded
\* as cross-source, so cross_source_links is empty after check_links, even
\* when the named record exists under another source.
C27_NeverCrossSource ==
    LinksChecked =>
        /\ checker.cross_source_links = <<>>
        /\ \A l \in Range(lookups) :
              l.source # "" =>
                  IF l.found = NoEntity
                  THEN \E b \in Range(checker.broken_links) :
                          b.tag = l.tag /\ b.target_source = l.source
                  ELSE SameIgnoringCase(l.found.source, l.source)

\* Shield is indexed under XGE only, and the tag that names Shield of the
\* PHB has been recorded as broken, not as cross-source
C27_Witness ==
    /\ LinksChecked
    /\ \E r \in Range(IndexedIn("spell")) : r.name = "Shield" /\ r.source = "XGE"
    /\ \E b \in Range(checker.broken_links) :
          b.tag = [kind |-> "spell", parts |-> <<"Shield", "PHB">>]
    /\ checker.cross_source_links = <<>>

\* ------------------------------------------------------------------------
\* Further properties of deduplicate_entities
\* ------------------------------------------------------------------------

\* the position at which a key first occurs in a list
FirstOccurrence(list, key) ==
    CHOOSE i \in 1..Len(list) :
        /\ HasKey(list[i]) /\ KeyOf(list[i]) = key
        /\ \A j \in 1..(i - 1) : ~(HasKey(list[j]) /\ KeyOf(list[j]) = key)

\* C29: the output of deduplicate_entities holds exactly one record for
\* each (name, source) key of the input records that have a name and a
\* source, each output record is an input record unchanged, the keys keep
\* the order of their first occurrence, and no input record lacking a name
\* or a source is in the output.
C29_DedupOnePerKey ==
    pc = "deduped" =>
        /\ \A d \in Range(deduped) : d \in Range(entities) /\ HasKey(d)
        /\ \A i, j \in 1..Len(deduped) :
              KeyOf(deduped[i]) = KeyOf(deduped[j]) => i = j
        /\ \A e \in Range(entities) :
              HasKey(e) => \E d \in Range(deduped) : KeyOf(d) = KeyOf(e)
        /\ \A i, j \in 1..Len(deduped) :
              i < j => FirstOccurrence(entities, KeyOf(deduped[i]))
                          < FirstOccurrence(entities, KeyOf(deduped[j]))

\* two keys, the first of them met again after the second and replaced,
\* and a record without a source: the output keeps the order of the keys
C29_Witness ==
    /\ pc = "deduped"
    /\ Len(entities) = 3
    /\ entities[1] = [name |-> "Fireball", source |-> "XGE"]
    /\ entities[2] = [name |-> "Fireball", source |-> "PHB"]
    /\ entities[3] = [name |-> "Fireball", source |-> "XGE", page |-> 5]
    /\ deduped = <<entities[3], entities[2]>>

\* ------------------------------------------------------------------------
\* Completeness of the partition written by process_json_file
\* ------------------------------------------------------------------------

\* the number of records the output file at `path` holds (its "_meta"
\* block is not a record array)
RECURSIVE SumLens(_, _)
SumLens(content, keys) ==
    IF keys = {} THEN 0
    ELSE LET k == CHOOSE x \in keys : TRUE
         IN Len(content[k]) + SumLens(content, keys \ {k})

RecordsInFile(path) ==
    IF path \in DOMAIN out THEN SumLens(out[path], DOMAIN out[path] \ {"_meta"}) ELSE 0

\* C22 (partition completeness): after process_json_file has processed a
\* loadable input file, every record of every recognized entity array of
\* the file whose source is known (and whose output directory is writable)
\* is in that source's output file under its entity-type key, and the
\* count returned for each source equals the number of records its output
\* file holds.
C22_PartitionComplete ==
    (kind = "main" /\ next_file > 1 /\ (next_file - 1) \notin unloadable) =>
        LET f == next_file - 1 IN
        /\ \A j \in 1..2 : \A e \in Range(FileArray(f, j)) :
              (HasSource(e) /\ e.source \in KnownSources /\ e.source \notin unwritable) =>
                  LET path == <<e.source, FileName(kind, f)>> IN
                  /\ path \in DOMAIN out
                  /\ FileKeys(kind)[j] \in DOMAIN out[path]
                  /\ e \in Range(out[path][FileKeys(kind)[j]])
        /\ \A S \in KnownSources :
              (IF DictHas(counts, S) THEN counts.at[S] ELSE 0)
                  = RecordsInFile(<<S, FileName(kind, f)>>)

\* ------------------------------------------------------------------------
\* Class records in classes.json
\* ------------------------------------------------------------------------

\* C28 (class records written once): once process_class_files has run,
\* also when it has run a second time on the output directory it already
\* populated (process_all_json_files with skip_special_dirs=False, then
\* the separate call of main), the classes.json of each known, writable
\* source holds under each key exactly the input records of that key and
\* source, each one once.
C28_ClassOnce ==
    (kind = "class" /\ pc \in {"fluff", "main_class", "done"}) =>
        \A S \in KnownSources \ unwritable : \A j \in 1..2 :
            LET expected == OfSource(ConcatLoadable(j, 1), S)
                path == <<S, ClassesJson>>
                key == FileKeys(kind)[j]
            IN IF expected = <<>>
               THEN path \in DOMAIN out => key \notin DOMAIN out[path]
               ELSE /\ path \in DOMAIN out
                    /\ key \in DOMAIN out[path]
                    /\ out[path][key] = expected

\* ------------------------------------------------------------------------
\* The exit code of the reorganization run
\* ------------------------------------------------------------------------

InitIsolation == InitPartition \/ InitAudit

NextIsolation == NextPartition \/ NextAudit

SpecIsolation == InitIsolation /\ [][NextIsolation]_vars

\* the input files a processor has tried to load so far
FilesTried ==
    CASE kind = "main" -> { f \in 1..NumFiles : f < next_file }
      [] kind = "fluff" -> IF pc \in {"done", "returned"} THEN 1..NumFiles
                           ELSE { f \in 1..NumFiles : f < next_file }
      [] kind = "bestiary" -> IF pc = "all_bestiary" THEN {} ELSE 1..NumFiles
      [] kind = "class" -> IF pc = "all_class" THEN {} ELSE 1..NumFiles
      [] OTHER -> {}

\* the records of source S of a processed array are in the output file of
\* S, under the key of an array of the same input
Written(a, S) ==
    /\ <<S, a.file>> \in DOMAIN out
    /\ \E b \in ProcessedArrays :
          /\ b.file = a.file
          /\ OfSource(b.arr, S) # <<>>
          /\ b.key \in DOMAIN out[<<S, a.file>>]
          /\ Range(OfSource(b.arr, S)) \subseteq Range(out[<<S, a.file>>][b.key])

\* the image entries of a corpus that carry a path
RefCount(paths) == Len(SelectSeq(paths, LAMBDA path : path # <<>>))

\* C23 (failure isolation): a record file that cannot be read or parsed is
\* recorded as an error and that file alone is skipped.  In the
\* partitioner every file tried that failed to load is in the errors of
\* the statistics, and the arrays of every other file are still grouped
\* and the partitions of their known, writable sources written; in the
\* image audit the failure is logged, every source directory is still
\* scanned, the references of every readable source are validated, and the
\* report is produced.
C23_FailureIsolation ==
    /\ kind \in Kinds =>
          /\ \A f \in FilesTried \cap unloadable :
                <<"Failed to load", FileName(kind, f)>> \in Range(stats.errors)
          /\ \A a \in ProcessedArrays : \A e \in Range(a.arr) :
                (HasSource(e) /\ e.source \in KnownSources \ unwritable)
                    => Written(a, e.source)
    /\ pc \in {"audit_done", "audit_exited"} =>
          /\ \A S \in data_dir.unreadable :
                <<"Error processing", S, SourceFile>> \in Range(log)
          /\ auditor.stats.sources_scanned = Cardinality(data_dir.sources)
          /\ auditor.stats.total_image_references =
                RefCount(data_dir.paths)
                    * Cardinality(data_dir.sources \ data_dir.unreadable)
          /\ report.scan_summary = auditor.stats

\* the first bestiary file cannot be loaded and the monsters of the second
\* are written all the same
C23_Witness ==
    /\ kind = "bestiary"
    /\ pc = "done"
    /\ unloadable = {1}
    /\ FileArray(2, 1) = << [name |-> "Fireball", source |-> "PHB"] >>
    /\ stats.errors # <<>>
    /\ <<"PHB", BestiaryJson>> \in DOMAIN out

\* the JSON file of one source directory cannot be parsed and the
\* references of another are validated all the same
C23_WitnessAudit ==
    /\ pc = "audit_done"
    /\ data_dir.sources = {"PHB", "PS-A"}
    /\ data_dir.unreadable = {"PHB"}
    /\ auditor.stats.total_image_references = 2
    /\ log # <<>>

\* ------------------------------------------------------------------------
\* Cross-source flag of utils.find_image_references
\* ------------------------------------------------------------------------

\* C24: in every reference dict returned by utils.find_image_references
\* for a path of the shape category/source/..., image_source is the source
\* component of the path and is_cross_source is true exactly when that
\* component differs from source_id.
C24_CrossSourceFlag ==
    pc = "refs_checked" =>
        \A r \in Range(references.found) :
            Shaped(r.path) =>
                /\ r.image_source = EmbeddedSource(r.path)
                /\ r.is_cross_source <=> (EmbeddedSource(r.path) # r.source_id)

\* ------------------------------------------------------------------------
\* Verdict of the source purity check
\* ------------------------------------------------------------------------

\* the top-level records of the file of directory S whose source is given
\* and is not S
Impure(S) ==
    SelectSeq(data_dir.records, LAMBDA e : "source" \in DOMAIN e /\ e.source # S)

\* C30: check_source_purity reports status OK and no error for every
\* corpus in which each top-level record under a source directory has the
\* directory's name as source, or none, whatever sources the dicts nested
\* in the records' list fields carry; and it reports one error for each
\* top-level record whose source is given and differs from the directory
\* name.
C30_PurityVerdict ==
    pc \in {"purity_checked", "purity_exited"} =>
        /\ (\A S \in data_dir.sources : Impure(S) = <<>>) =>
              /\ report.status = "OK"
              /\ report.summary.total_errors = 0
        /\ \A S \in data_dir.sources :
              Len(SelectSeq(report.errors,
                            LAMBDA err : err.expected_source = S /\ err.path = <<"spell">>))
                  = Len(Impure(S))

=============================================================================
